---- MODULE Spec2Model ----
(***************************************************************************)
(* RTDM driver library (ksrc/skins/rtdm/drvlib.c): the event, semaphore    *)
(* and mutex services built on one nucleus synchronisation object          *)
(* (xnsynch_t), the IPC cleanup helper _rtdm_synch_flush, and the nucleus  *)
(* services they call (sleep, wake-up, timer tick, explicit unblock).      *)
(*                                                                         *)
(* One object of kind "event", "sem" or "mutex" is modelled together with  *)
(* the tasks that use it.  Every operation runs under the global lock      *)
(* nklock, so each critical section is one atomic step; a blocking call is *)
(* split at xnsynch_sleep_on() into the step that enqueues the caller and  *)
(* the step that runs when the caller is scheduled again (Resume).         *)
(***************************************************************************)
EXTENDS Integers, FiniteSets, Sequences, TLC

(* ---- bounds of the model ---- *)
NTasks == 3
MaxTimeout == 1
MaxTimed == 1
MaxCount == 2
MaxDate == 3
MaxSeqTimeout == 2
MaxBreak == 2

(* ---- program constants ---- *)
NoTask == 0
NoSeq == -100
XN_INFINITE == 0

Tasks == 1..NTasks
Kinds == {"event", "sem", "mutex"}

\* thread status bits tested after a wake-up
XNTIMEO == "XNTIMEO"
XNRMID == "XNRMID"
XNBREAK == "XNBREAK"
WakeBits == {XNTIMEO, XNRMID, XNBREAK}

\* bits of synch_base.status
RTDM_SYNCH_DELETED == "RTDM_SYNCH_DELETED"
RTDM_EVENT_PENDING == "RTDM_EVENT_PENDING"

\* relative timeouts a caller may pass: negative = non-blocking, 0 = infinite
Timeouts == (0 - 1)..MaxTimeout

VARIABLES
    kind,      \* which primitive the synch object belongs to
    status,    \* synch_base.status: subset of {DELETED, PENDING}
    owner,     \* synch_base.owner (mutex), NoTask when unowned
    value,     \* sem->value
    pendq,     \* synch_base.pendq: tasks sleeping on the object
    pc,        \* per task: "run" | "pend" (suspended in sleep_on) | "ready" (resumed, not yet running)
    info,      \* per task: wake-up bits XNTIMEO/XNRMID/XNBREAK of the thread status,
               \* dropped once the resumed call has tested them (nothing reads them
               \* again before the next suspension clears them)
    timeout,   \* per task: local variable timeout of a blocked rtdm_mutex_timedlock
    seq,       \* per task: argument timeout_seq of a blocked rtdm_mutex_timedlock,
               \* as *timeout_seq - xnpod_get_time()
    timer,     \* per task: ticks until the thread's resource timer fires, 0 = not armed
    holds,     \* per task: a lock call returned 0 and the task has not unlocked since
    initValue, \* argument of rtdm_sem_init (value) or rtdm_event_init (pending)
    nUp,       \* number of rtdm_sem_up calls performed
    nDown,     \* number of rtdm_sem_timeddown calls that returned 0
    last,      \* the last completed step: [op, t, res]
    date,      \* xnpod_get_time(), the clock date in ticks, where it is tracked
    toseq,     \* the rtdm_toseq_t handle of a driver routine: the value stored in it
    seqT,      \* the timeout the handle was initialised with
    seqT0,     \* the date at which the handle was initialised
    thread,    \* per task: life cycle of the thread and the delay service it is in
    nkcalls,   \* the nucleus calls made by the last rtdm_task_init, in order
    nklock,    \* per task: xnlock_get_irqsave(&nklock) minus xnlock_put_irqrestore
               \* calls of the task, 1 while it holds the global lock
    lpos,      \* per task: the service it executes and the place reached in it,
               \* where the lock operations of a service are followed one by one
    deadline,  \* the date at which the timeout of the driver routine's pending
               \* lock call ends: the date of the call plus the timeout
    nBreak     \* number of explicit unblocks delivered so far, where it is bounded

vars == <<kind, status, owner, value, pendq, pc, info, timeout, seq, timer,
          holds, initValue, nUp, nDown, last, date, toseq, seqT, seqT0, thread,
          nkcalls, nklock, lpos, deadline, nBreak>>

\* state of the timed and task services
toseqVars == <<date, toseq, seqT, seqT0>>
threadVars == <<thread, nkcalls>>

\* state of the global lock, and history of the break-retry scenarios
lockVars == <<nklock, lpos>>
histVars == <<deadline, nBreak>>

\* a task that executes no service
Idle == [op |-> "none", at |-> "out", arg |-> NoTask]

synchVars == <<status, owner, value, pendq>>
taskVars == <<pc, info, timeout, seq, timer, holds>>
semHist == <<initValue, nUp, nDown>>

\* Time is kept relative to the current date xnpod_get_time(): a timer is the
\* number of ticks left until it fires, and a timeout sequence handle is
\* *timeout_seq - xnpod_get_time(), the ticks left until its deadline (0 once
\* the deadline is reached or passed).  A clock tick lowers each of them by one.
\* The date itself and the absolute value stored in a handle are tracked only
\* in the specifications of the timed services (SpecToseq, SpecTask), where
\* the clock is bounded; the specifications of the synchronisation services
\* (Spec, SpecEvent, SpecSem, SpecMutex) leave them alone.

\* timeout sequence handles a caller may pass along with timeout to: NULL, or a
\* handle initialised with the same timeout some ticks ago (to ticks left when
\* it was initialised just now); for to <= 0 the handle holds no deadline
SeqVals(to) == {NoSeq} \cup (IF to > 0 THEN 0..to ELSE {0})

\* the arguments <<timeout, timeout_seq>> a caller may pass
CallArgs == UNION {{<<to, sq>> : sq \in SeqVals(to)} : to \in Timeouts}

Deleted == RTDM_SYNCH_DELETED \in status
Pending == RTDM_EVENT_PENDING \in status

Init ==
    /\ kind \in Kinds
    /\ status \in (IF kind = "event" THEN {{}, {RTDM_EVENT_PENDING}} ELSE {{}})
    /\ owner = NoTask
    /\ value \in (IF kind = "sem" THEN 0..MaxCount ELSE {0})
    /\ initValue = (IF kind = "event" THEN Cardinality(status) ELSE value)
    /\ pendq = {}
    /\ pc = [t \in Tasks |-> "run"]
    /\ info = [t \in Tasks |-> {}]
    /\ timeout = [t \in Tasks |-> 0]
    /\ seq = [t \in Tasks |-> NoSeq]
    /\ timer = [t \in Tasks |-> 0]
    /\ holds = [t \in Tasks |-> FALSE]
    /\ nUp = 0
    /\ nDown = 0
    /\ last = [op |-> "init", t |-> NoTask, res |-> "none"]
    /\ date = 0
    /\ toseq = NoSeq
    /\ seqT = 0
    /\ seqT0 = 0
    /\ thread = [t \in Tasks |-> "started"]
    /\ nkcalls = << >>
    /\ nklock = [t \in Tasks |-> 0]
    /\ lpos = [t \in Tasks |-> Idle]
    /\ deadline = 0
    /\ nBreak = 0

(* ---- nucleus services called by the driver library ---- *)

\* xnpod_ns2ticks() with the timer in aperiodic (one-shot) mode: one tick is 1 ns
xnpod_ns2ticks(ns) == ns

\* the step that was just completed
Done(op, t, res) == last' = [op |-> op, t |-> t, res |-> res]

\* xnsynch_sleep_on(): enqueue the caller, clear its wake-up bits, arm the
\* resource timer unless the timeout is XN_INFINITE (0), and suspend it
xnsynch_sleep_on(t, ticks) ==
    /\ pendq' = pendq \cup {t}
    /\ pc' = [pc EXCEPT ![t] = "pend"]
    /\ info' = [info EXCEPT ![t] = {}]
    /\ timer' = [timer EXCEPT ![t] = ticks]

\* the locals timeout and timeout_seq of the blocked calls once the tasks of
\* set W are resumed with bits other than XNBREAK alone: no path reads them
\* again, so the model forgets them
DropLocals(W) ==
    /\ timeout' = [t \in Tasks |-> IF t \in W THEN 0 ELSE timeout[t]]
    /\ seq' = [t \in Tasks |-> IF t \in W THEN NoSeq ELSE seq[t]]

\* xnsynch_flush(): dequeue and resume every sleeper, tagging it with reason
xnsynch_flush(reason) ==
    /\ pendq' = {}
    /\ pc' = [t \in Tasks |-> IF t \in pendq THEN "ready" ELSE pc[t]]
    /\ info' = [t \in Tasks |-> IF t \in pendq THEN info[t] \cup reason ELSE info[t]]
    /\ timer' = [t \in Tasks |-> IF t \in pendq THEN 0 ELSE timer[t]]
    /\ DropLocals(pendq)

\* xnsynch_wakeup_one_sleeper() for sleeper w: dequeue it, stop its timer and
\* resume it without any wake-up bit
xnsynch_wakeup_one_sleeper(w) ==
    /\ pendq' = pendq \ {w}
    /\ pc' = [pc EXCEPT ![w] = "ready"]
    /\ timer' = [timer EXCEPT ![w] = 0]
    /\ DropLocals({w})

(* ---- decisions taken by the code of drvlib.c ---- *)

\* variant: the test of the reason is missing, every flush marks the object deleted
FlushStatus_always(st, reason) == st \cup {RTDM_SYNCH_DELETED}

\* if (reason == XNRMID) setbits(synch->status, RTDM_SYNCH_DELETED)
FlushStatus(st, reason) ==
    IF reason = {XNRMID} THEN st \cup {RTDM_SYNCH_DELETED} ELSE st

\* variant: the test looks at the wrong status bit
TestDeleted_wrongbit(st) == RTDM_EVENT_PENDING \in st

\* testbits(synch_base.status, RTDM_SYNCH_DELETED)
TestDeleted(st) == RTDM_SYNCH_DELETED \in st

\* xnsynch_test_flags(&event->synch_base, RTDM_EVENT_PENDING)
TestPending(st) == RTDM_EVENT_PENDING \in st

\* variant: the timeout sequence is ignored
UseSeq_never(to, sq) == FALSE

\* variant: the timeout sequence is consulted whenever one is given
UseSeq_always(to, sq) == sq # NoSeq

\* timeout_seq && (timeout > 0)
UseSeq(to, sq) == sq # NoSeq /\ to > 0

\* variant: the relative timeout is handed to xnsynch_sleep_on() also when a
\* timeout sequence is in use
SleepTicks_rel(to, sq) == xnpod_ns2ticks(to)

\* the timeout handed to xnsynch_sleep_on()
SleepTicks(to, sq) == IF UseSeq(to, sq) THEN sq ELSE xnpod_ns2ticks(to)

\* timeout = *timeout_seq - xnpod_get_time(); if (timeout <= 0) -> -ETIMEDOUT
SeqExpired(to, sq) == UseSeq(to, sq) /\ sq <= 0

\* variant: XNBREAK is missing from the mask of the first test
EventWakeResult_nobreak(bits) ==
    IF bits \cap {XNTIMEO, XNRMID} = {} THEN "OK"
    ELSE IF XNTIMEO \in bits THEN "ETIMEDOUT"
    ELSE IF XNRMID \in bits THEN "EIDRM"
    ELSE "EINTR"

\* result of rtdm_event_timedwait after the wake-up, from the thread's bits
EventWakeResult(bits) ==
    IF bits \cap WakeBits = {} THEN "OK"
    ELSE IF XNTIMEO \in bits THEN "ETIMEDOUT"
    ELSE IF XNRMID \in bits THEN "EIDRM"
    ELSE "EINTR"

\* variant: the XNRMID branch is missing
SemWakeResult_normid(bits) ==
    IF bits \cap WakeBits # {} THEN
        IF XNTIMEO \in bits THEN "ETIMEDOUT"
        ELSE "EINTR"
    ELSE "OK"

\* result of rtdm_sem_timeddown after the wake-up
SemWakeResult(bits) ==
    IF bits \cap WakeBits # {} THEN
        IF XNTIMEO \in bits THEN "ETIMEDOUT"
        ELSE IF XNRMID \in bits THEN "EIDRM"
        ELSE "EINTR"
    ELSE "OK"

\* variant: XNBREAK is reported to the caller as in the event and semaphore code
MutexWakeResult_eintr(bits) ==
    IF bits \cap WakeBits # {} THEN
        IF XNTIMEO \in bits THEN "ETIMEDOUT"
        ELSE IF XNRMID \in bits THEN "EIDRM"
        ELSE "EINTR"
    ELSE "OK"

\* variant: the break bit is tested first
MutexWakeResult_breakfirst(bits) ==
    IF bits \cap WakeBits # {} THEN
        IF XNBREAK \in bits THEN "restart"
        ELSE IF XNTIMEO \in bits THEN "ETIMEDOUT"
        ELSE "EIDRM"
    ELSE "OK"

\* result of rtdm_mutex_timedlock after the wake-up; "restart" is goto restart
MutexWakeResult(bits) ==
    IF bits \cap WakeBits # {} THEN
        IF XNTIMEO \in bits THEN "ETIMEDOUT"
        ELSE IF XNRMID \in bits THEN "EIDRM"
        ELSE "restart"
    ELSE "OK"

\* variant: off by one, the last unit is never handed out
SemAvailable_gt1(v) == v > 1

\* variant: off by one, a unit is taken from an empty semaphore
SemAvailable_ge0(v) == v >= 0

\* else if (sem->value > 0) sem->value--
SemAvailable(v) == v > 0

\* variant: the owner test is missing, the mutex is granted while it is owned
MutexFree_always(o) == TRUE

\* else if (xnsynch_owner(&mutex->synch_base) == NULL)
MutexFree(o) == o = NoTask

(* ---- IPC cleanup helper ---- *)

\* _rtdm_synch_flush(synch, reason): rtdm_*_destroy passes XNRMID,
\* rtdm_event_pulse passes 0 (the empty set of bits)
_rtdm_synch_flush(reason) ==
    /\ status' = FlushStatus(status, reason)
    /\ xnsynch_flush(reason)
    /\ Done("flush", NoTask, IF reason = {XNRMID} THEN "XNRMID" ELSE "none")
    /\ UNCHANGED <<kind, owner, value, holds, semHist>>

\* rtdm_event_pulse(event): _rtdm_synch_flush(&event->synch_base, 0)
rtdm_event_pulse ==
    /\ kind = "event"
    /\ _rtdm_synch_flush({})

\* the reasons the callers of the helper pass for an object of kind k
FlushReasons(k) == IF k = "event" THEN {{}, {XNRMID}} ELSE {{XNRMID}}

(* ---- event services ---- *)

\* variant: the pending flag is not set
rtdm_event_signal_nopend ==
    /\ kind = "event"
    /\ status' = status
    /\ xnsynch_flush({})
    /\ Done("signal", NoTask, "none")
    /\ UNCHANGED <<kind, owner, value, holds, semHist>>

\* variant: only one sleeper is woken, as rtdm_sem_up does
rtdm_event_signal_wakeone ==
    /\ kind = "event"
    /\ status' = status \cup {RTDM_EVENT_PENDING}
    /\ IF pendq # {} THEN
           \E w \in pendq : xnsynch_wakeup_one_sleeper(w)
       ELSE UNCHANGED <<pendq, pc, timer, timeout, seq>>
    /\ Done("signal", NoTask, "none")
    /\ UNCHANGED <<kind, owner, value, info, holds, semHist>>

rtdm_event_signal ==
    /\ kind = "event"
    /\ status' = status \cup {RTDM_EVENT_PENDING}
    /\ xnsynch_flush({})
    /\ Done("signal", NoTask, "none")
    /\ UNCHANGED <<kind, owner, value, holds, semHist>>

\* variant: the whole status word is cleared
rtdm_event_clear_all ==
    /\ kind = "event"
    /\ status' = {}
    /\ Done("clear", NoTask, "none")
    /\ UNCHANGED <<kind, owner, value, pendq, taskVars, semHist>>

\* variant: the sleepers are flushed as well
rtdm_event_clear_flush ==
    /\ kind = "event"
    /\ status' = status \ {RTDM_EVENT_PENDING}
    /\ xnsynch_flush({})
    /\ Done("clear", NoTask, "none")
    /\ UNCHANGED <<kind, owner, value, holds, semHist>>

rtdm_event_clear ==
    /\ kind = "event"
    /\ status' = status \ {RTDM_EVENT_PENDING}
    /\ Done("clear", NoTask, "none")
    /\ UNCHANGED <<kind, owner, value, pendq, taskVars, semHist>>

\* rtdm_event_timedwait up to its return or to the suspension in xnsynch_sleep_on
rtdm_event_timedwait(t, to, sq) ==
    /\ kind = "event"
    /\ pc[t] = "run"
    /\ IF TestDeleted(status) THEN
           /\ Done("wait", t, "EIDRM")
           /\ UNCHANGED <<status, pendq, pc, info, timer>>
       ELSE IF TestPending(status) THEN
           /\ status' = status \ {RTDM_EVENT_PENDING}
           /\ Done("wait", t, "OK")
           /\ UNCHANGED <<pendq, pc, info, timer>>
       ELSE IF to < 0 THEN
           /\ Done("wait", t, "EWOULDBLOCK")
           /\ UNCHANGED <<status, pendq, pc, info, timer>>
       ELSE IF SeqExpired(to, sq) THEN
           /\ Done("wait", t, "ETIMEDOUT")
           /\ UNCHANGED <<status, pendq, pc, info, timer>>
       ELSE
           /\ xnsynch_sleep_on(t, SleepTicks(to, sq))
           /\ Done("wait", t, "blocked")
           /\ UNCHANGED status
    /\ UNCHANGED <<kind, owner, value, timeout, seq, holds, semHist>>

\* variant: the pending flag is cleared on every return from the sleep
rtdm_event_timedwait_resume_clearall(t) ==
    /\ kind = "event"
    /\ pc[t] = "ready"
    /\ status' = status \ {RTDM_EVENT_PENDING}
    /\ pc' = [pc EXCEPT ![t] = "run"]
    /\ info' = [info EXCEPT ![t] = {}]
    /\ Done("wait_wake", t, EventWakeResult(info[t]))
    /\ UNCHANGED <<kind, owner, value, pendq, timeout, seq, timer, holds,
                   semHist>>

\* variant: a waiter resumed without a wake-up bit tests the pending flag again
rtdm_event_timedwait_resume_retest(t) ==
    /\ kind = "event"
    /\ pc[t] = "ready"
    /\ status' = IF EventWakeResult(info[t]) = "OK"
                 THEN status \ {RTDM_EVENT_PENDING} ELSE status
    /\ pc' = [pc EXCEPT ![t] = "run"]
    /\ info' = [info EXCEPT ![t] = {}]
    /\ Done("wait_wake", t,
            IF EventWakeResult(info[t]) = "OK" /\ ~TestPending(status)
            THEN "ETIMEDOUT" ELSE EventWakeResult(info[t]))
    /\ UNCHANGED <<kind, owner, value, pendq, timeout, seq, timer, holds,
                   semHist>>

\* variant: the pending flag is left alone after the sleep
rtdm_event_timedwait_resume_noclear(t) ==
    /\ kind = "event"
    /\ pc[t] = "ready"
    /\ status' = status
    /\ pc' = [pc EXCEPT ![t] = "run"]
    /\ info' = [info EXCEPT ![t] = {}]
    /\ Done("wait_wake", t, EventWakeResult(info[t]))
    /\ UNCHANGED <<kind, owner, value, pendq, timeout, seq, timer, holds,
                   semHist>>

\* rtdm_event_timedwait from the return of xnsynch_sleep_on to its own return
rtdm_event_timedwait_resume(t) ==
    /\ kind = "event"
    /\ pc[t] = "ready"
    /\ status' = IF EventWakeResult(info[t]) = "OK"
                 THEN status \ {RTDM_EVENT_PENDING} ELSE status
    /\ pc' = [pc EXCEPT ![t] = "run"]
    /\ info' = [info EXCEPT ![t] = {}]
    /\ Done("wait_wake", t, EventWakeResult(info[t]))
    /\ UNCHANGED <<kind, owner, value, pendq, timeout, seq, timer, holds,
                   semHist>>

(* ---- semaphore services ---- *)

\* variant: the non-blocking test comes before the test of the count
rtdm_sem_timeddown_nbfirst(t, to, sq) ==
    /\ kind = "sem"
    /\ pc[t] = "run"
    /\ IF TestDeleted(status) THEN
           /\ Done("down", t, "EIDRM")
           /\ UNCHANGED <<value, nDown, pendq, pc, info, timer>>
       ELSE IF to < 0 THEN
           /\ Done("down", t, "EWOULDBLOCK")
           /\ UNCHANGED <<value, nDown, pendq, pc, info, timer>>
       ELSE IF SemAvailable(value) THEN
           /\ value' = value - 1
           /\ nDown' = nDown + 1
           /\ Done("down", t, "OK")
           /\ UNCHANGED <<pendq, pc, info, timer>>
       ELSE IF SeqExpired(to, sq) THEN
           /\ Done("down", t, "ETIMEDOUT")
           /\ UNCHANGED <<value, nDown, pendq, pc, info, timer>>
       ELSE
           /\ xnsynch_sleep_on(t, SleepTicks(to, sq))
           /\ Done("down", t, "blocked")
           /\ UNCHANGED <<value, nDown>>
    /\ UNCHANGED <<kind, status, owner, timeout, seq, holds, initValue, nUp>>

\* variant: a successful down leaves the count as it is
rtdm_sem_timeddown_nodec(t, to, sq) ==
    /\ kind = "sem"
    /\ pc[t] = "run"
    /\ IF TestDeleted(status) THEN
           /\ Done("down", t, "EIDRM")
           /\ UNCHANGED <<value, nDown, pendq, pc, info, timer>>
       ELSE IF SemAvailable(value) THEN
           /\ value' = value
           /\ nDown' = nDown + 1
           /\ Done("down", t, "OK")
           /\ UNCHANGED <<pendq, pc, info, timer>>
       ELSE IF to < 0 THEN
           /\ Done("down", t, "EWOULDBLOCK")
           /\ UNCHANGED <<value, nDown, pendq, pc, info, timer>>
       ELSE IF SeqExpired(to, sq) THEN
           /\ Done("down", t, "ETIMEDOUT")
           /\ UNCHANGED <<value, nDown, pendq, pc, info, timer>>
       ELSE
           /\ xnsynch_sleep_on(t, SleepTicks(to, sq))
           /\ Done("down", t, "blocked")
           /\ UNCHANGED <<value, nDown>>
    /\ UNCHANGED <<kind, status, owner, timeout, seq, holds, initValue, nUp>>

rtdm_sem_timeddown(t, to, sq) ==
    /\ kind = "sem"
    /\ pc[t] = "run"
    /\ IF TestDeleted(status) THEN
           /\ Done("down", t, "EIDRM")
           /\ UNCHANGED <<value, nDown, pendq, pc, info, timer>>
       ELSE IF SemAvailable(value) THEN
           /\ value' = value - 1
           /\ nDown' = nDown + 1
           /\ Done("down", t, "OK")
           /\ UNCHANGED <<pendq, pc, info, timer>>
       ELSE IF to < 0 THEN
           /\ Done("down", t, "EWOULDBLOCK")
           /\ UNCHANGED <<value, nDown, pendq, pc, info, timer>>
       ELSE IF SeqExpired(to, sq) THEN
           /\ Done("down", t, "ETIMEDOUT")
           /\ UNCHANGED <<value, nDown, pendq, pc, info, timer>>
       ELSE
           /\ xnsynch_sleep_on(t, SleepTicks(to, sq))
           /\ Done("down", t, "blocked")
           /\ UNCHANGED <<value, nDown>>
    /\ UNCHANGED <<kind, status, owner, timeout, seq, holds, initValue, nUp>>

rtdm_sem_timeddown_resume(t) ==
    /\ kind = "sem"
    /\ pc[t] = "ready"
    /\ pc' = [pc EXCEPT ![t] = "run"]
    /\ nDown' = IF SemWakeResult(info[t]) = "OK" THEN nDown + 1 ELSE nDown
    /\ info' = [info EXCEPT ![t] = {}]
    /\ Done("down_wake", t, SemWakeResult(info[t]))
    /\ UNCHANGED <<kind, synchVars, timeout, seq, timer, holds,
                   initValue, nUp>>

\* variant: the count is incremented even when a sleeper was woken
rtdm_sem_up_both ==
    /\ kind = "sem"
    /\ nUp < MaxCount
    /\ nUp' = nUp + 1
    /\ value' = value + 1
    /\ IF pendq # {} THEN
           \E w \in pendq :
               /\ xnsynch_wakeup_one_sleeper(w)
               /\ Done("up", w, "woke")
       ELSE
           /\ Done("up", NoTask, "incr")
           /\ UNCHANGED <<pendq, pc, timer, timeout, seq>>
    /\ UNCHANGED <<kind, status, owner, info, holds, initValue, nDown>>

\* variant: the count is incremented and no sleeper is woken
rtdm_sem_up_nowake ==
    /\ kind = "sem"
    /\ nUp < MaxCount
    /\ nUp' = nUp + 1
    /\ value' = value + 1
    /\ Done("up", NoTask, "incr")
    /\ UNCHANGED <<kind, status, owner, pendq, taskVars, initValue, nDown>>

\* the sleeper xnsynch_wakeup_one_sleeper() picks, if any: the wait queue is
\* priority ordered, any queued task may be its head
rtdm_sem_up ==
    /\ kind = "sem"
    /\ nUp < MaxCount
    /\ nUp' = nUp + 1
    /\ IF pendq # {} THEN
           /\ \E w \in pendq :
                  /\ xnsynch_wakeup_one_sleeper(w)
                  /\ Done("up", w, "woke")
           /\ UNCHANGED value
       ELSE
           /\ value' = value + 1
           /\ Done("up", NoTask, "incr")
           /\ UNCHANGED <<pendq, pc, timer, timeout, seq>>
    /\ UNCHANGED <<kind, status, owner, info, holds, initValue, nDown>>

(* ---- mutex services ---- *)

\* rtdm_mutex_timedlock from label restart on: sleep again, or give up when
\* the timeout sequence has expired
MutexSleep(t, to, sq, op) ==
    IF SeqExpired(to, sq) THEN
        /\ pc' = [pc EXCEPT ![t] = "run"]
        /\ timeout' = [timeout EXCEPT ![t] = 0]
        /\ seq' = [seq EXCEPT ![t] = NoSeq]
        /\ info' = [info EXCEPT ![t] = {}]
        /\ Done(op, t, "ETIMEDOUT")
        /\ UNCHANGED <<pendq, timer>>
    ELSE
        /\ xnsynch_sleep_on(t, SleepTicks(to, sq))
        /\ timeout' = [timeout EXCEPT ![t] = SleepTicks(to, sq)]
        /\ seq' = [seq EXCEPT ![t] = sq]
        /\ Done(op, t, IF op = "lock" THEN "blocked" ELSE "restart")

\* variant: the owner is set before the non-blocking test, so a refused
\* caller is recorded as owner
rtdm_mutex_timedlock_nbown(t, to, sq) ==
    /\ kind = "mutex"
    /\ pc[t] = "run"
    /\ IF TestDeleted(status) THEN
           /\ Done("lock", t, "EIDRM")
           /\ UNCHANGED <<owner, holds, pendq, pc, info, timeout, seq, timer>>
       ELSE IF MutexFree(owner) THEN
           /\ owner' = t
           /\ holds' = [holds EXCEPT ![t] = TRUE]
           /\ Done("lock", t, "OK")
           /\ UNCHANGED <<pendq, pc, info, timeout, seq, timer>>
       ELSE IF to < 0 THEN
           /\ owner' = t
           /\ Done("lock", t, "EWOULDBLOCK")
           /\ UNCHANGED <<holds, pendq, pc, info, timeout, seq, timer>>
       ELSE
           /\ MutexSleep(t, to, sq, "lock")
           /\ UNCHANGED <<owner, holds>>
    /\ UNCHANGED <<kind, status, value, semHist>>

\* variant: a recursive mutex, the owner is granted the mutex again
rtdm_mutex_timedlock_recursive(t, to, sq) ==
    /\ kind = "mutex"
    /\ pc[t] = "run"
    /\ IF TestDeleted(status) THEN
           /\ Done("lock", t, "EIDRM")
           /\ UNCHANGED <<owner, holds, pendq, pc, info, timeout, seq, timer>>
       ELSE IF MutexFree(owner) \/ owner = t THEN
           /\ owner' = t
           /\ holds' = [holds EXCEPT ![t] = TRUE]
           /\ Done("lock", t, "OK")
           /\ UNCHANGED <<pendq, pc, info, timeout, seq, timer>>
       ELSE IF to < 0 THEN
           /\ Done("lock", t, "EWOULDBLOCK")
           /\ UNCHANGED <<owner, holds, pendq, pc, info, timeout, seq, timer>>
       ELSE
           /\ MutexSleep(t, to, sq, "lock")
           /\ UNCHANGED <<owner, holds>>
    /\ UNCHANGED <<kind, status, value, semHist>>

rtdm_mutex_timedlock(t, to, sq) ==
    /\ kind = "mutex"
    /\ pc[t] = "run"
    /\ IF TestDeleted(status) THEN
           /\ Done("lock", t, "EIDRM")
           /\ UNCHANGED <<owner, holds, pendq, pc, info, timeout, seq, timer>>
       ELSE IF MutexFree(owner) THEN
           /\ owner' = t
           /\ holds' = [holds EXCEPT ![t] = TRUE]
           /\ Done("lock", t, "OK")
           /\ UNCHANGED <<pendq, pc, info, timeout, seq, timer>>
       ELSE IF to < 0 THEN
           /\ Done("lock", t, "EWOULDBLOCK")
           /\ UNCHANGED <<owner, holds, pendq, pc, info, timeout, seq, timer>>
       ELSE
           /\ MutexSleep(t, to, sq, "lock")
           /\ UNCHANGED <<owner, holds>>
    /\ UNCHANGED <<kind, status, value, semHist>>

\* variant: the retry without a timeout sequence sleeps for what is left of
\* the relative timeout
rtdm_mutex_timedlock_resume_rest(t) ==
    /\ kind = "mutex"
    /\ pc[t] = "ready"
    /\ IF MutexWakeResult(info[t]) = "restart" THEN
           /\ MutexSleep(t, IF seq[t] = NoSeq /\ deadline > date
                            THEN deadline - date ELSE timeout[t],
                         seq[t], "lock_wake")
           /\ UNCHANGED holds
       ELSE
           /\ pc' = [pc EXCEPT ![t] = "run"]
           /\ holds' = [holds EXCEPT ![t] = holds[t] \/ MutexWakeResult(info[t]) = "OK"]
           /\ timeout' = [timeout EXCEPT ![t] = 0]
           /\ seq' = [seq EXCEPT ![t] = NoSeq]
           /\ info' = [info EXCEPT ![t] = {}]
           /\ Done("lock_wake", t, MutexWakeResult(info[t]))
           /\ UNCHANGED <<pendq, timer>>
    /\ UNCHANGED <<kind, status, owner, value, semHist>>

rtdm_mutex_timedlock_resume(t) ==
    /\ kind = "mutex"
    /\ pc[t] = "ready"
    /\ IF MutexWakeResult(info[t]) = "restart" THEN
           /\ MutexSleep(t, timeout[t], seq[t], "lock_wake")
           /\ UNCHANGED holds
       ELSE
           /\ pc' = [pc EXCEPT ![t] = "run"]
           /\ holds' = [holds EXCEPT ![t] = holds[t] \/ MutexWakeResult(info[t]) = "OK"]
           /\ timeout' = [timeout EXCEPT ![t] = 0]
           /\ seq' = [seq EXCEPT ![t] = NoSeq]
           /\ info' = [info EXCEPT ![t] = {}]
           /\ Done("lock_wake", t, MutexWakeResult(info[t]))
           /\ UNCHANGED <<pendq, timer>>
    /\ UNCHANGED <<kind, status, owner, value, semHist>>

\* rtdm_mutex_unlock, called by a task that holds the mutex: the owner
\* reference passes to the woken sleeper, or becomes empty when nobody waits
rtdm_mutex_unlock(t) ==
    /\ kind = "mutex"
    /\ pc[t] = "run"
    /\ holds[t]
    /\ holds' = [holds EXCEPT ![t] = FALSE]
    /\ IF pendq # {} THEN
           \E w \in pendq :
               /\ xnsynch_wakeup_one_sleeper(w)
               /\ owner' = w
               /\ Done("unlock", w, "woke")
       ELSE
           /\ owner' = NoTask
           /\ Done("unlock", NoTask, "free")
           /\ UNCHANGED <<pendq, pc, timer, timeout, seq>>
    /\ UNCHANGED <<kind, status, value, info, semHist>>

(* ---- the environment: explicit unblock and the timer tick ---- *)

\* variant: the unblocked task stays on the wait queue
rtdm_task_unblock_queued(t) ==
    /\ pc[t] = "pend"
    /\ pendq' = pendq
    /\ pc' = [pc EXCEPT ![t] = "ready"]
    /\ info' = [info EXCEPT ![t] = info[t] \cup {XNBREAK}]
    /\ timer' = [timer EXCEPT ![t] = 0]
    /\ Done("unblock", t, "none")
    /\ UNCHANGED <<kind, status, owner, value, timeout, seq, holds, semHist>>

\* rtdm_task_unblock() on a task sleeping on the object: xnpod_unblock_thread()
\* dequeues it, stops its timer and resumes it with XNBREAK
rtdm_task_unblock(t) ==
    /\ pc[t] = "pend"
    /\ pendq' = pendq \ {t}
    /\ pc' = [pc EXCEPT ![t] = "ready"]
    /\ info' = [info EXCEPT ![t] = info[t] \cup {XNBREAK}]
    /\ timer' = [timer EXCEPT ![t] = 0]
    /\ Done("unblock", t, "none")
    /\ UNCHANGED <<kind, status, owner, value, timeout, seq, holds, semHist>>

\* the sleepers whose resource timer fires at the next clock tick
Expired == {t \in Tasks : pc[t] = "pend" /\ timer[t] = 1}

\* one clock tick: the timer handler resumes every expired sleeper with
\* XNTIMEO, and every deadline comes one tick closer
Tick ==
    /\ pendq' = pendq \ Expired
    /\ pc' = [t \in Tasks |-> IF t \in Expired THEN "ready" ELSE pc[t]]
    /\ info' = [t \in Tasks |-> IF t \in Expired THEN info[t] \cup {XNTIMEO} ELSE info[t]]
    /\ timer' = [t \in Tasks |-> IF timer[t] > 0 THEN timer[t] - 1 ELSE 0]
    /\ timeout' = [t \in Tasks |-> IF t \in Expired THEN 0 ELSE timeout[t]]
    /\ seq' = [t \in Tasks |-> IF t \in Expired THEN NoSeq
                               ELSE IF seq[t] > 0 THEN seq[t] - 1 ELSE seq[t]]
    /\ Done("tick", NoTask, "none")
    /\ UNCHANGED <<kind, status, owner, value, holds, semHist>>

\* a blocking call with a finite timeout or a timeout sequence is under way for t
InTimed(t) == pc[t] # "run" /\ (timer[t] # 0 \/ timeout[t] # 0 \/ seq[t] # NoSeq)

\* the arguments the callers pass in the current state: at most MaxTimed
\* calls with a finite timeout or a timeout sequence are under way at a time
Args ==
    IF Cardinality({t \in Tasks : InTimed(t)}) < MaxTimed
    THEN CallArgs
    ELSE {a \in CallArgs : a[1] <= 0 /\ a[2] = NoSeq}

\* steps common to the three primitives
\* the synchronisation services do not touch the clock date, a timeout
\* sequence handle or the life cycle of a thread
Untimed == UNCHANGED <<toseqVars, threadVars, lockVars, histVars>>

\* the steps of the timed and task services leave the lock and the history
\* of the break-retry scenarios alone, as far as they are followed there
Unlocked == UNCHANGED <<lockVars, histVars>>

NextCommon ==
    \/ \E reason \in FlushReasons(kind) : _rtdm_synch_flush(reason) /\ Untimed
    \/ \E t \in Tasks : rtdm_task_unblock(t) /\ Untimed
    \/ Tick /\ Untimed

NextEvent ==
    \/ rtdm_event_signal /\ Untimed
    \/ rtdm_event_clear /\ Untimed
    \/ \E t \in Tasks, a \in Args : rtdm_event_timedwait(t, a[1], a[2]) /\ Untimed
    \/ \E t \in Tasks : rtdm_event_timedwait_resume(t) /\ Untimed

NextSem ==
    \/ \E t \in Tasks, a \in Args : rtdm_sem_timeddown(t, a[1], a[2]) /\ Untimed
    \/ \E t \in Tasks : rtdm_sem_timeddown_resume(t) /\ Untimed
    \/ rtdm_sem_up /\ Untimed

NextMutex ==
    \/ \E t \in Tasks, a \in Args : rtdm_mutex_timedlock(t, a[1], a[2]) /\ Untimed
    \/ \E t \in Tasks : rtdm_mutex_timedlock_resume(t) /\ Untimed
    \/ \E t \in Tasks : rtdm_mutex_unlock(t) /\ Untimed

Next == NextCommon \/ NextEvent \/ NextSem \/ NextMutex

\* the three primitives together
Spec == Init /\ [][Next]_vars

\* one primitive at a time
InitEvent == Init /\ kind = "event"
InitSem == Init /\ kind = "sem"
InitMutex == Init /\ kind = "mutex"
StepEvent == NextCommon \/ NextEvent
StepSem == NextCommon \/ NextSem
StepMutex == NextCommon \/ NextMutex
SpecEvent == InitEvent /\ [][StepEvent]_vars
SpecSem == InitSem /\ [][StepSem]_vars
SpecMutex == InitMutex /\ [][StepMutex]_vars

TypeOK ==
    /\ kind \in Kinds
    /\ status \subseteq {RTDM_SYNCH_DELETED, RTDM_EVENT_PENDING}
    /\ owner \in Tasks \cup {NoTask}
    /\ pendq \subseteq Tasks
    /\ pc \in [Tasks -> {"run", "pend", "ready"}]
    /\ info \in [Tasks -> SUBSET WakeBits]
    /\ holds \in [Tasks -> BOOLEAN]
    /\ timer \in [Tasks -> 0..MaxTimeout]

(* ---- properties ---- *)

\* a task whose blocked call was resumed without any wake-up bit
WokenClean(t) == pc[t] = "ready" /\ info[t] \cap WakeBits = {}

\* C1: mutex hand-off.  At most one task owns the mutex at any time: a task
\* that holds it is the owner the mutex records.  When the owner unlocks while
\* a waiter is queued, the woken waiter is the recorded owner from the unlock
\* until its lock call returns, so the mutex is never unowned in between and
\* no lock attempt of a third task can take it.
MutexHandOff ==
    /\ \A t \in Tasks : holds[t] => owner = t
    /\ Cardinality({t \in Tasks : holds[t]}) <= 1
    /\ \A t \in Tasks : WokenClean(t) => (owner = t /\ \A u \in Tasks : ~holds[u])
    /\ (last.op = "unlock" /\ last.res = "woke") => (owner = last.t /\ WokenClean(last.t))

\* C1 witness: while a hand-off is under way (the waiter is woken but has not
\* returned yet), a third task has just tried to lock and was not granted
MutexHandOffWitness ==
    /\ kind = "mutex"
    /\ last.op = "lock"
    /\ last.res \in {"blocked", "EWOULDBLOCK"}
    /\ \E w \in Tasks \ {last.t} : WokenClean(w) /\ owner = w
    /\ Cardinality({t \in Tasks : pc[t] # "run"}) >= 2

\* C2: mutex break-retry.  When a lock call is resumed by an explicit unblock
\* only (XNBREAK), it goes back to the wait: the task sleeps on the mutex
\* again, or the deadline of its timeout sequence has passed and the result is
\* -ETIMEDOUT.  A lock call that was blocked returns 0, -ETIMEDOUT or -EIDRM,
\* never -EINTR.
MutexBreakRetry ==
    [][\A t \in Tasks :
          rtdm_mutex_timedlock_resume(t) =>
              /\ last'.res \in {"OK", "ETIMEDOUT", "EIDRM", "restart"}
              /\ (last'.res = "restart") = (pc'[t] = "pend")
              /\ pc'[t] = "pend" => t \in pendq'
              /\ info[t] \cap WakeBits = {XNBREAK} =>
                    \/ pc'[t] = "pend"
                    \/ last'.res = "ETIMEDOUT" /\ SeqExpired(timeout[t], seq[t])
       ]_vars

\* C2 witness: an unblocked lock call has re-entered the wait
MutexBreakRetryWitness ==
    /\ last.op = "lock_wake"
    /\ last.res = "restart"
    /\ pc[last.t] = "pend"
    /\ last.t \in pendq

\* the step that runs a resumed call of task t to its end
Resume(t) ==
    \/ rtdm_event_timedwait_resume(t)
    \/ rtdm_sem_timeddown_resume(t)
    \/ rtdm_mutex_timedlock_resume(t)

\* the first part of a wait, down or lock call of task t with arguments a
Call(t, a) ==
    \/ rtdm_event_timedwait(t, a[1], a[2])
    \/ rtdm_sem_timeddown(t, a[1], a[2])
    \/ rtdm_mutex_timedlock(t, a[1], a[2])

\* C3: deletion wakes every waiter.  _rtdm_synch_flush with XNRMID on an
\* event, semaphore or mutex leaves the wait queue empty and no task blocked:
\* every task that slept on the object is resumed with XNRMID and nothing
\* else, and the wait, down or lock call of a task resumed with XNRMID returns
\* -EIDRM (not -ETIMEDOUT).
DeletionWakesAll ==
    [][/\ _rtdm_synch_flush({XNRMID}) =>
              /\ pendq' = {}
              /\ \A t \in Tasks : pc'[t] # "pend"
              /\ \A t \in pendq : pc'[t] = "ready" /\ info'[t] \cap WakeBits = {XNRMID}
       /\ \A t \in Tasks :
              (XNRMID \in info[t] /\ Resume(t)) =>
                  (last'.res = "EIDRM" /\ last'.t = t /\ pc'[t] = "run")
      ]_vars

\* C3 witness: a task that slept on the object returned -EIDRM after the flush
DeletionWakesAllWitness ==
    /\ Deleted
    /\ last.op \in {"wait_wake", "down_wake", "lock_wake"}
    /\ last.res = "EIDRM"
    /\ pendq = {}

\* C4: the deleted bit is monotonic: no step clears it once it is set.
DeletedMonotonic == [][Deleted => Deleted']_vars

\* C4 witness: an operation that writes the status word or wakes sleepers ran
\* on a deleted object
DeletedMonotonicWitness ==
    /\ Deleted
    /\ last.op \in {"clear", "signal", "up", "unlock"}

\* C5: on an object marked deleted, wait, down and lock return -EIDRM without
\* blocking, for every timeout and timeout sequence, and leave the pending
\* flag, the count, the owner and the wait queue as they were.  (Every call
\* step records its operation in last, and "A => B" is written "B \/ ~A".)
DeletedReturnsEIDRM ==
    [][(Deleted /\ last'.op \in {"wait", "down", "lock"}) =>
          \A t \in Tasks :
              \/ /\ last'.res = "EIDRM"
                 /\ pc'[t] = "run"
                 /\ UNCHANGED <<status, value, owner, pendq, holds, nDown>>
              \/ \A a \in CallArgs : ~Call(t, a)
      ]_vars

\* C5 witness: -EIDRM was returned although the event was pending, the count
\* positive or the mutex unowned
DeletedReturnsEIDRMWitness ==
    /\ Deleted
    /\ last.op \in {"wait", "down", "lock"}
    /\ last.res = "EIDRM"
    /\ \/ Pending
       \/ value > 0
       \/ kind = "mutex" /\ owner = NoTask

\* C6: rtdm_sem_up does exactly one of two things.  With a task waiting it
\* wakes exactly one waiter, without any wake-up bit, and leaves the count
\* unchanged; with no task waiting it increments the count by one and wakes
\* nobody.
SemUpOneOfTwo ==
    [][rtdm_sem_up =>
          IF pendq # {}
          THEN /\ value' = value
               /\ \E w \in pendq :
                      /\ pendq' = pendq \ {w}
                      /\ pc'[w] = "ready"
                      /\ info'[w] \cap WakeBits = {}
                      /\ \A u \in Tasks \ {w} : pc'[u] = pc[u]
          ELSE /\ value' = value + 1
               /\ pc' = pc
               /\ pendq' = pendq
      ]_vars

\* C6 witness: an up woke one waiter while another one stays asleep
SemUpOneOfTwoWitness ==
    /\ last.op = "up"
    /\ last.res = "woke"
    /\ pc[last.t] = "ready"
    /\ pendq # {}

\* C7: the wait queue of a semaphore is non-empty only while its count is 0.
SemQueueOnlyAtZero == (kind = "sem" /\ pendq # {}) => value = 0

\* C7 witness: tasks wait on the semaphore after ups and downs took place
SemQueueOnlyAtZeroWitness ==
    /\ kind = "sem"
    /\ pendq # {}
    /\ nUp > 0
    /\ nDown > 0

\* C8: as long as no up was performed on a semaphore initialised with count
\* N, the count is N minus the number of successful downs, and a non-blocking
\* down (timeout < 0) succeeds and takes one unit while fewer than N downs
\* have succeeded; after N of them it returns -EWOULDBLOCK without blocking
\* and leaves the count at 0.
SemNonBlockingDown ==
    [][(nUp = 0 /\ ~Deleted) =>
          /\ value = initValue - nDown
          /\ \A t \in Tasks, a \in CallArgs :
                 (a[1] < 0 /\ rtdm_sem_timeddown(t, a[1], a[2])) =>
                     IF nDown < initValue
                     THEN /\ last'.res = "OK"
                          /\ value' = value - 1
                          /\ nDown' = nDown + 1
                          /\ pc'[t] = "run"
                     ELSE /\ last'.res = "EWOULDBLOCK"
                          /\ value' = 0
                          /\ nDown' = nDown
                          /\ pc'[t] = "run"
                          /\ pendq' = pendq
      ]_vars

\* C8 witness: after N > 1 successful downs and no up, a non-blocking down
\* returned -EWOULDBLOCK
SemNonBlockingDownWitness ==
    /\ kind = "sem"
    /\ nUp = 0
    /\ initValue > 1
    /\ nDown = initValue
    /\ value = 0
    /\ last.op = "down"
    /\ last.res = "EWOULDBLOCK"

\* C9: the semaphore count is never negative.
SemCountNonNegative == value >= 0

\* C9 witness: a down found the count at 0 and did not take a unit
SemCountNonNegativeWitness ==
    /\ kind = "sem"
    /\ value = 0
    /\ last.op = "down"
    /\ last.res \in {"blocked", "EWOULDBLOCK", "ETIMEDOUT"}

\* C10: event signal-then-wait.  The wait that follows an rtdm_event_signal on
\* a non-deleted event returns 0 without blocking, for every timeout and
\* timeout sequence, and leaves the pending flag cleared; a wait that follows
\* such a successful wait, with no signal in between, does not return 0.
EventSignalThenWait ==
    [][\A t \in Tasks, a \in CallArgs :
          rtdm_event_timedwait(t, a[1], a[2]) =>
              /\ (last.op = "signal" /\ ~Deleted) =>
                     /\ last'.res = "OK"
                     /\ pc'[t] = "run"
                     /\ ~Pending'
                     /\ pendq' = pendq
              /\ (last.op = "wait" /\ last.res = "OK") => last'.res # "OK"
      ]_vars

\* C10 witness: on an event initialised as not set, a wait returned 0 at once
\* and left the pending flag cleared
EventSignalThenWaitWitness ==
    /\ kind = "event"
    /\ initValue = 0
    /\ ~Deleted
    /\ last.op = "wait"
    /\ last.res = "OK"
    /\ ~Pending

\* C11: rtdm_event_signal sets the pending flag and wakes every task queued on
\* the event: after the signal the wait queue is empty and each of the k tasks
\* that were queued is resumed without a wake-up bit; a task resumed without a
\* wake-up bit stays so until its wait call runs on, and that call returns 0.
EventSignalWakesAll ==
    [][/\ rtdm_event_signal =>
              /\ Pending'
              /\ pendq' = {}
              /\ \A t \in pendq : WokenClean(t)'
              /\ \A t \in Tasks : pc'[t] # "pend"
       /\ \A t \in Tasks :
              WokenClean(t) =>
                  \/ WokenClean(t)'
                  \/ /\ rtdm_event_timedwait_resume(t)
                     /\ last'.res = "OK"
                     /\ last'.t = t
                     /\ pc'[t] = "run"
      ]_vars

\* C11 witness: a signal has just woken two or more waiters
EventSignalWakesAllWitness ==
    /\ last.op = "signal"
    /\ Pending
    /\ pendq = {}
    /\ Cardinality({t \in Tasks : WokenClean(t)}) >= 2

\* C13: rtdm_event_clear clears the pending flag whatever the state of the
\* event, and changes nothing else: the deleted bit, the wait queue and the
\* state of every task (suspended or not, its wake-up bits, its timer) are as
\* before, so no waiter is woken.
EventClearFrame ==
    [][rtdm_event_clear =>
          /\ ~Pending'
          /\ Deleted' = Deleted
          /\ status' = status \ {RTDM_EVENT_PENDING}
          /\ UNCHANGED <<pendq, pc, info, timer, owner, value>>
      ]_vars

\* C13 witness: the clear ran while a task slept on the event, and the sleeper
\* is still suspended and queued after it
EventClearFrameWitness ==
    /\ last.op = "clear"
    /\ ~Pending
    /\ pendq # {}
    /\ \E t \in Tasks : pc[t] = "pend" /\ t \in pendq

\* a wait call in blocking mode whose timeout sequence, if any, has not expired
BlockingArgs(a) == a[1] >= 0 /\ ~SeqExpired(a[1], a[2])

\* the last step was a pulse
Pulsed == last.op = "flush" /\ last.res = "none"

Available ==
    CASE kind = "event" -> Pending
      [] kind = "sem" -> value > 0
      [] kind = "mutex" -> owner = NoTask

\* the arguments of a call in non-blocking mode
NonBlockingArgs == {a \in CallArgs : a[1] < 0}

\* C14: non-blocking mode tests availability first.  On a non-deleted object
\* a wait, down or lock call with timeout < 0 returns 0 and consumes the
\* resource when the event is pending, the count positive or the mutex
\* unowned; otherwise it returns -EWOULDBLOCK, the caller is neither queued
\* nor suspended, and pending flag, count and owner are unchanged.
NonBlockingMode ==
    [][\A t \in Tasks, a \in NonBlockingArgs :
          (~Deleted /\ last'.t = t /\ Call(t, a)) =>
              /\ pc' = pc
              /\ pendq' = pendq
              /\ IF Available
                 THEN /\ last'.res = "OK"
                      /\ kind = "event" => (~Pending' /\ Deleted' = Deleted)
                      /\ kind = "sem" => value' = value - 1
                      /\ kind = "mutex" => (owner' = t /\ holds'[t])
                 ELSE /\ last'.res = "EWOULDBLOCK"
                      /\ UNCHANGED <<status, value, owner, holds, nDown>>
      ]_vars

\* C14 witness: a call returned -EWOULDBLOCK while another task sleeps on the
\* object, and the caller is running and not queued
NonBlockingModeWitness ==
    /\ ~Deleted
    /\ last.op \in {"wait", "down", "lock"}
    /\ last.res = "EWOULDBLOCK"
    /\ pc[last.t] = "run"
    /\ last.t \notin pendq
    /\ pendq # {}

(* ---- timeout sequences ---- *)

\* the task that runs the driver routine of the application scenario
\* (device_service_routine): it owns the handle timeout_seq
Driver == 1

\* the timeouts the driver routine hands to rtdm_toseq_init and to the calls
SeqTimeouts == (0 - 1)..MaxSeqTimeout

\* variant: the current date is not added, the relative timeout is stored
rtdm_toseq_init_rel(T) ==
    /\ pc[Driver] = "run"
    /\ toseq = NoSeq
    /\ toseq' = T
    /\ seqT' = T
    /\ seqT0' = date
    /\ Done("toseq_init", Driver, "none")
    /\ UNCHANGED <<kind, synchVars, taskVars, semHist, date, threadVars>>

\* rtdm_toseq_init(&timeout_seq, T), called once by the driver routine before
\* its loop: a positive timeout is stored as the absolute date of the
\* deadline, 0 or a negative value is stored as it is
rtdm_toseq_init(T) ==
    /\ pc[Driver] = "run"
    /\ toseq = NoSeq
    /\ toseq' = (IF T > 0 THEN date + xnpod_ns2ticks(T) ELSE T)
    /\ seqT' = T
    /\ seqT0' = date
    /\ Done("toseq_init", Driver, "none")
    /\ UNCHANGED <<kind, synchVars, taskVars, semHist, date, threadVars>>

\* *timeout_seq - xnpod_get_time(), as the calls take it (0 when the date has
\* reached or passed the value stored in the handle)
SeqLeft == IF toseq - date > 0 THEN toseq - date ELSE 0

\* variant: the call stores the time left in the handle
SeqCall_store(to) ==
    /\ toseq # NoSeq
    /\ Call(Driver, <<to, SeqLeft>>)
    /\ toseq' = (IF to > 0 THEN SeqLeft ELSE toseq)
    /\ UNCHANGED <<date, seqT, seqT0, threadVars, lockVars, histVars>>

\* the driver routine calls wait, down or lock with timeout to and its handle
SeqCall(to) ==
    /\ toseq # NoSeq
    /\ Call(Driver, <<to, SeqLeft>>)
    /\ Untimed

\* one clock tick with the date tracked, up to date MaxDate
ClockTick ==
    /\ date < MaxDate
    /\ Tick
    /\ date' = date + 1
    /\ UNCHANGED <<toseq, seqT, seqT0, threadVars>>

InitToseq == Init

StepToseq ==
    \/ \E T \in SeqTimeouts : rtdm_toseq_init(T) /\ Unlocked
    \/ \E to \in SeqTimeouts : SeqCall(to)
    \/ \E t \in Tasks \ {Driver} : Call(t, <<0 - 1, NoSeq>>) /\ Untimed
    \/ \E t \in Tasks : Resume(t) /\ Untimed
    \/ rtdm_event_signal /\ Untimed
    \/ rtdm_sem_up /\ Untimed
    \/ \E t \in Tasks : rtdm_mutex_unlock(t) /\ Untimed
    \/ \E reason \in FlushReasons(kind) : _rtdm_synch_flush(reason) /\ Untimed
    \/ \E t \in Tasks : rtdm_task_unblock(t) /\ Untimed
    \/ ClockTick /\ Unlocked

\* a driver routine that makes blocking calls with its timeout sequence, the
\* other tasks, which take the resource without blocking and release it, and
\* the clock
SpecToseq == InitToseq /\ [][StepToseq]_vars

\* what the timeout sequence rule prescribes for the driver routine's call
\* when it has to block: fail at once when the deadline is reached, else
\* sleep for the time left until the deadline
SeqRuleOutcome ==
    IF toseq - date <= 0
    THEN /\ last'.res = "ETIMEDOUT"
         /\ last'.t = Driver
         /\ pc'[Driver] = "run"
         /\ pendq' = pendq
         /\ UNCHANGED <<status, value, owner>>
    ELSE /\ pc'[Driver] = "pend"
         /\ Driver \in pendq'
         /\ timer'[Driver] = toseq - date

\* C15: timeout-sequence rule.  When a wait, down or lock call that is given
\* a timeout sequence and a timeout > 0 has to block (object not deleted,
\* resource not available), it takes remaining = deadline - now: with
\* remaining <= 0 it returns -ETIMEDOUT without queuing or suspending the
\* caller, otherwise it sleeps with a timer of exactly remaining ticks,
\* whatever the relative timeout is.  The same holds when a lock call goes
\* back to the wait after an explicit unblock.
TimeoutSequenceRule ==
    [][/\ \A to \in 1..MaxSeqTimeout :
              (~Deleted /\ ~Available /\ SeqCall(to)) => SeqRuleOutcome
       /\ (/\ UseSeq(timeout[Driver], seq[Driver])
           /\ info[Driver] \cap WakeBits = {XNBREAK}
           /\ rtdm_mutex_timedlock_resume(Driver)) => SeqRuleOutcome
      ]_vars

\* C15 witness: the driver routine's call has just blocked with less time
\* than the timeout its handle was initialised with
TimeoutSequenceRuleWitness ==
    /\ last.op \in {"wait", "down", "lock"}
    /\ last.t = Driver
    /\ last.res = "blocked"
    /\ seqT > 0
    /\ timer[Driver] > 0
    /\ timer[Driver] < seqT
    /\ timer[Driver] = toseq - date

\* the time budget left to the driver routine: the timeout T its handle was
\* initialised with at date t0, minus the time elapsed since t0
Budget == seqT - (date - seqT0)

\* the driver routine sleeps with a finite timeout
TimedSleep == pc[Driver] = "pend" /\ timer[Driver] > 0

\* C16: shared time budget.  With a timeout sequence initialised with T > 0
\* at date t0, every call of the driver routine that blocks with a timeout > 0
\* and the sequence, the first as well as each later one (and a lock call that
\* goes back to the wait after an unblock), sleeps with a timer of
\* T - (now - t0) ticks, not of a fresh T, the timer of a sleeping call stays
\* equal to that budget as time passes, and so no call is still blocked at or
\* after the date t0 + T.
SharedBudget ==
    [][seqT > 0 =>
          /\ \A to \in 1..MaxSeqTimeout :
                 (SeqCall(to) /\ pc'[Driver] = "pend") =>
                     (Budget > 0 /\ timer'[Driver] = Budget)
          /\ (/\ timeout[Driver] > 0
              /\ rtdm_mutex_timedlock_resume(Driver)
              /\ pc'[Driver] = "pend") =>
                 (Budget > 0 /\ timer'[Driver] = Budget)
          /\ (TimedSleep /\ pc'[Driver] = "pend") => timer'[Driver] = Budget'
          /\ TimedSleep' => date' < seqT0' + seqT'
      ]_vars

\* C16 witness: time has passed since the handle was initialised, and a call
\* of the driver routine has just blocked with what is left of the budget
SharedBudgetWitness ==
    /\ seqT > 1
    /\ date > seqT0
    /\ last.op \in {"wait", "down", "lock"}
    /\ last.t = Driver
    /\ last.res = "blocked"
    /\ TimedSleep
    /\ timer[Driver] = seqT - (date - seqT0)
    /\ date + timer[Driver] = seqT0 + seqT

\* C17: rtdm_toseq_init with timeout T stores now + T, the absolute date of
\* the deadline, when T > 0, and stores T itself when T is 0 (infinite) or
\* negative (non-blocking).
ToseqInitStores ==
    [][\A T \in SeqTimeouts :
          rtdm_toseq_init(T) =>
              /\ T > 0 => toseq' = date + T
              /\ T <= 0 => toseq' = T
              /\ date' = date
      ]_vars

\* C17 witness: a handle was initialised with a positive timeout at a date
\* later than 0, so that the deadline differs from the timeout
ToseqInitStoresWitness ==
    /\ last.op = "toseq_init"
    /\ seqT > 0
    /\ date > 0
    /\ seqT0 = date
    /\ toseq = date + seqT
    /\ toseq # seqT

\* the wake-up bit a sleeper gets from the step that has just resumed it:
\* XNTIMEO from the timer, XNRMID from a deletion, XNBREAK from an explicit
\* unblock, none from signal, pulse, up or unlock
WakeReason ==
    IF last'.op = "tick" THEN {XNTIMEO}
    ELSE IF last'.op = "flush" /\ last'.res = "XNRMID" THEN {XNRMID}
    ELSE IF last'.op = "unblock" THEN {XNBREAK}
    ELSE {}

\* the result the claim gives for a wake-up reason
ResultFor(bits) ==
    CASE bits = {XNTIMEO} -> "ETIMEDOUT"
      [] bits = {XNRMID} -> "EIDRM"
      [] bits = {XNBREAK} -> "EINTR"
      [] bits = {} -> "OK"

\* C18: wake-reason mapping for event and semaphore.  A sleeper carries
\* exactly the bit of the step that resumed it until its call runs on.  The
\* resumed rtdm_event_timedwait or rtdm_sem_timeddown then returns -ETIMEDOUT
\* after a timeout, -EIDRM after a deletion, -EINTR after an explicit unblock
\* and 0 otherwise.  On 0 the event wait clears the pending flag and the
\* semaphore down leaves the count as it is; on an error neither changes the
\* status word or the count.
WakeReasonMapping ==
    [][\A t \in Tasks :
          /\ (pc[t] = "pend" /\ pc'[t] = "ready") =>
                 info'[t] \cap WakeBits = WakeReason
          /\ (pc[t] = "ready" /\ pc'[t] = "ready") => info'[t] = info[t]
          /\ (pc[t] = "ready" /\ rtdm_event_timedwait_resume(t)) =>
                 /\ last'.res = ResultFor(info[t] \cap WakeBits)
                 /\ last'.t = t
                 /\ pc'[t] = "run"
                 /\ IF last'.res = "OK"
                    THEN ~Pending' /\ Deleted' = Deleted
                    ELSE status' = status
          /\ (pc[t] = "ready" /\ rtdm_sem_timeddown_resume(t)) =>
                 /\ last'.res = ResultFor(info[t] \cap WakeBits)
                 /\ last'.t = t
                 /\ pc'[t] = "run"
                 /\ value' = value
                 /\ status' = status
      ]_vars

\* C18 witness: a wait or down call that had blocked returned -EINTR
WakeReasonMappingWitness ==
    /\ kind \in {"event", "sem"}
    /\ last.op \in {"wait_wake", "down_wake"}
    /\ last.res = "EINTR"
    /\ pc[last.t] = "run"

(* ---- task services ---- *)

\* results of the nucleus calls made by rtdm_task_init
InitResults == {"OK", "ENOMEM"}
PeriodicResults == {"OK", "EINVAL"}
StartResults == {"OK", "EBUSY"}

\* the periods a caller may pass: XN_INFINITE (non-periodic) or a period
Periods == {XN_INFINITE, 1}

\* variant: a failed start returns through error_out, the thread is not deleted
TaskInit_nocleanup(period, r1, r2, r3) ==
    IF r1 # "OK" THEN
        [res |-> r1, calls |-> <<"init">>, st |-> "none"]
    ELSE IF period # XN_INFINITE /\ r2 # "OK" THEN
        [res |-> r2, calls |-> <<"init", "periodic", "delete">>, st |-> "deleted"]
    ELSE IF r3 # "OK" THEN
        [res |-> r3,
         calls |-> (IF period # XN_INFINITE THEN <<"init", "periodic">>
                    ELSE <<"init">>) \o <<"start">>,
         st |-> "dormant"]
    ELSE
        [res |-> r3,
         calls |-> (IF period # XN_INFINITE THEN <<"init", "periodic">>
                    ELSE <<"init">>) \o <<"start">>,
         st |-> "started"]

\* rtdm_task_init with the results r1, r2, r3 of xnpod_init_thread,
\* xnpod_set_thread_periodic and xnpod_start_thread: the value returned, the
\* nucleus calls made, in order, and the state the thread is left in
\* ("none": no thread, "dormant": initialised and not started, "started",
\* "deleted")
TaskInit(period, r1, r2, r3) ==
    IF r1 # "OK" THEN
        [res |-> r1, calls |-> <<"init">>, st |-> "none"]
    ELSE IF period # XN_INFINITE /\ r2 # "OK" THEN
        [res |-> r2, calls |-> <<"init", "periodic", "delete">>, st |-> "deleted"]
    ELSE IF r3 # "OK" THEN
        [res |-> r3,
         calls |-> (IF period # XN_INFINITE THEN <<"init", "periodic">>
                    ELSE <<"init">>) \o <<"start", "delete">>,
         st |-> "deleted"]
    ELSE
        [res |-> r3,
         calls |-> (IF period # XN_INFINITE THEN <<"init", "periodic">>
                    ELSE <<"init">>) \o <<"start">>,
         st |-> "started"]

\* rtdm_task_init on a task structure that holds no live thread
rtdm_task_init(t, period, r1, r2, r3) ==
    /\ thread[t] \in {"none", "deleted"}
    /\ thread' = [thread EXCEPT ![t] = TaskInit(period, r1, r2, r3).st]
    /\ nkcalls' = TaskInit(period, r1, r2, r3).calls
    /\ Done("task_init", t, TaskInit(period, r1, r2, r3).res)
    /\ UNCHANGED <<kind, synchVars, taskVars, semHist, toseqVars>>

\* the absolute wake-up dates a caller may pass
WakeupTimes == 0..(MaxDate + 1)

\* variant: a date that is reached just now is slept on (delay >= 0)
MustSleep_ge(delay) == delay >= 0

\* if (likely(delay > 0))
MustSleep(delay) == delay > 0

\* rtdm_task_sleep_until up to its return or to xnpod_suspend_thread(XNDELAY)
rtdm_task_sleep_until(t, wakeup_time) ==
    /\ thread[t] = "started"
    /\ pc[t] = "run"
    /\ IF MustSleep(xnpod_ns2ticks(wakeup_time) - date) THEN
           /\ pc' = [pc EXCEPT ![t] = "pend"]
           /\ info' = [info EXCEPT ![t] = {}]
           /\ timer' = [timer EXCEPT ![t] = xnpod_ns2ticks(wakeup_time) - date]
           /\ thread' = [thread EXCEPT ![t] = "sleep_until"]
           /\ Done("sleep_until", t, "blocked")
       ELSE
           /\ Done("sleep_until", t, "OK")
           /\ UNCHANGED <<pc, info, timer, thread>>
    /\ UNCHANGED <<kind, synchVars, timeout, seq, holds, semHist, toseqVars,
                   nkcalls>>

\* variant: the XNBREAK test is missing
SleepResult_nobreak(bits) == "OK"

\* xnthread_test_flags(thread, XNBREAK) ? -EINTR : 0
SleepResult(bits) == IF XNBREAK \in bits THEN "EINTR" ELSE "OK"

\* rtdm_task_sleep_until from the return of xnpod_suspend_thread on
rtdm_task_sleep_until_resume(t) ==
    /\ thread[t] = "sleep_until"
    /\ pc[t] = "ready"
    /\ pc' = [pc EXCEPT ![t] = "run"]
    /\ info' = [info EXCEPT ![t] = {}]
    /\ thread' = [thread EXCEPT ![t] = "started"]
    /\ Done("sleep_until_wake", t, SleepResult(info[t]))
    /\ UNCHANGED <<kind, synchVars, timeout, seq, timer, holds, semHist,
                   toseqVars, nkcalls>>

\* the delays a caller of rtdm_task_sleep may pass
Delays == 0..MaxDate

\* xnpod_suspend_thread(thread, XNDELAY, ticks, NULL): clear the wake-up bits
\* of the caller, arm its timer unless ticks is XN_INFINITE (0), suspend it
xnpod_suspend_thread(t, ticks) ==
    /\ pc' = [pc EXCEPT ![t] = "pend"]
    /\ info' = [info EXCEPT ![t] = {}]
    /\ timer' = [timer EXCEPT ![t] = ticks]

\* rtdm_task_sleep up to the suspension in xnpod_suspend_thread
rtdm_task_sleep(t, delay) ==
    /\ thread[t] = "started"
    /\ pc[t] = "run"
    /\ xnpod_suspend_thread(t, xnpod_ns2ticks(delay))
    /\ thread' = [thread EXCEPT ![t] = "sleep"]
    /\ Done("sleep", t, "blocked")
    /\ UNCHANGED <<kind, synchVars, timeout, seq, holds, semHist, toseqVars,
                   nkcalls>>

\* rtdm_task_sleep from the return of xnpod_suspend_thread on
rtdm_task_sleep_resume(t) ==
    /\ thread[t] = "sleep"
    /\ pc[t] = "ready"
    /\ pc' = [pc EXCEPT ![t] = "run"]
    /\ info' = [info EXCEPT ![t] = {}]
    /\ thread' = [thread EXCEPT ![t] = "started"]
    /\ Done("sleep_wake", t, SleepResult(info[t]))
    /\ UNCHANGED <<kind, synchVars, timeout, seq, timer, holds, semHist,
                   toseqVars, nkcalls>>

\* the number of task structures that rtdm_task_init is applied to
MaxThreads == 2

\* the task structures of the task services
Threads == 1..MaxThreads

\* no task exists yet; no synchronisation object is used
InitTask ==
    /\ kind = "event"
    /\ status = {}
    /\ owner = NoTask
    /\ value = 0
    /\ initValue = 0
    /\ pendq = {}
    /\ pc = [t \in Tasks |-> "run"]
    /\ info = [t \in Tasks |-> {}]
    /\ timeout = [t \in Tasks |-> 0]
    /\ seq = [t \in Tasks |-> NoSeq]
    /\ timer = [t \in Tasks |-> 0]
    /\ holds = [t \in Tasks |-> FALSE]
    /\ nUp = 0
    /\ nDown = 0
    /\ last = [op |-> "init", t |-> NoTask, res |-> "none"]
    /\ date = 0
    /\ toseq = NoSeq
    /\ seqT = 0
    /\ seqT0 = 0
    /\ thread = [t \in Tasks |-> "none"]
    /\ nkcalls = << >>
    /\ nklock = [t \in Tasks |-> 0]
    /\ lpos = [t \in Tasks |-> Idle]
    /\ deadline = 0
    /\ nBreak = 0

StepTask ==
    \/ \E t \in Threads, period \in Periods, r1 \in InitResults,
          r2 \in PeriodicResults, r3 \in StartResults :
           rtdm_task_init(t, period, r1, r2, r3) /\ Unlocked
    \/ \E t \in Threads, w \in WakeupTimes :
           rtdm_task_sleep_until(t, w) /\ Unlocked
    \/ \E t \in Threads : rtdm_task_sleep_until_resume(t) /\ Unlocked
    \/ \E t \in Threads, delay \in Delays : rtdm_task_sleep(t, delay) /\ Unlocked
    \/ \E t \in Threads : rtdm_task_sleep_resume(t) /\ Unlocked
    \/ \E t \in Threads : rtdm_task_unblock(t) /\ Untimed
    \/ ClockTick /\ Unlocked

\* the tasks created by rtdm_task_init, their delays and the clock
SpecTask == InitTask /\ [][StepTask]_vars

(* ---- the global lock and rtdm_task_join_nrt ---- *)

\* nobody holds nklock
LockFree == \A t \in Tasks : nklock[t] <= 0

\* xnlock_get_irqsave(&nklock, s) by task t
xnlock_get_irqsave(t) ==
    /\ LockFree
    /\ nklock' = [nklock EXCEPT ![t] = nklock[t] + 1]

\* xnlock_put_irqrestore(&nklock, s) by task t
xnlock_put_irqrestore(t) ==
    nklock' = [nklock EXCEPT ![t] = nklock[t] - 1]

\* task t goes on to place at of the service it executes
Goto(t, at) == lpos' = [lpos EXCEPT ![t].at = at]

\* xnthread_test_flags(task, XNZOMBIE)
XNZOMBIE(st) == st = "zombie"

\* the task procedure of t returns, or t deletes itself: the nucleus marks
\* the thread as a zombie
TaskExit(t) ==
    /\ thread[t] = "started"
    /\ pc[t] = "run"
    /\ thread' = [thread EXCEPT ![t] = "zombie"]
    /\ Done("exit", t, "none")
    /\ UNCHANGED <<kind, synchVars, taskVars, semHist, toseqVars, nkcalls,
                   lockVars, histVars>>

\* what the steps of rtdm_task_join_nrt leave alone
JoinFrame ==
    UNCHANGED <<kind, synchVars, taskVars, semHist, toseqVars, threadVars,
                histVars, last>>

\* rtdm_task_join_nrt(task, poll_delay), called by j from the root context
\* on a task handle returned by rtdm_task_init: the first xnlock_get_irqsave
rtdm_task_join_nrt(j, task) ==
    /\ lpos[j] = Idle
    /\ thread[j] = "none"
    /\ thread[task] \notin {"none", "deleted"}
    /\ xnlock_get_irqsave(j)
    /\ lpos' = [lpos EXCEPT ![j] = [op |-> "join", at |-> "while", arg |-> task]]
    /\ JoinFrame

\* variant: the loop ends without looking at the zombie flag
join_while_notest(j) ==
    /\ lpos[j].op = "join"
    /\ lpos[j].at = "while"
    /\ Goto(j, "unlock_out")
    /\ UNCHANGED nklock
    /\ JoinFrame

\* while (!xnthread_test_flags(task, XNZOMBIE))
join_while(j) ==
    /\ lpos[j].op = "join"
    /\ lpos[j].at = "while"
    /\ IF XNZOMBIE(thread[lpos[j].arg])
       THEN Goto(j, "unlock_out")
       ELSE Goto(j, "loop")
    /\ UNCHANGED nklock
    /\ JoinFrame

\* variant: the lock is kept while the caller sleeps
join_put_keep(j) ==
    /\ lpos[j].op = "join"
    /\ lpos[j].at = "loop"
    /\ Goto(j, "msleep")
    /\ UNCHANGED nklock
    /\ JoinFrame

\* the loop body up to msleep: xnlock_put_irqrestore(&nklock, s)
join_put(j) ==
    /\ lpos[j].op = "join"
    /\ lpos[j].at = "loop"
    /\ xnlock_put_irqrestore(j)
    /\ Goto(j, "msleep")
    /\ JoinFrame

\* msleep(poll_delay) returns and the lock is taken again for the next test
join_get(j) ==
    /\ lpos[j].op = "join"
    /\ lpos[j].at = "msleep"
    /\ xnlock_get_irqsave(j)
    /\ Goto(j, "while")
    /\ JoinFrame

\* after the loop: xnlock_put_irqrestore(&nklock, s) and return
join_return(j) ==
    /\ lpos[j].op = "join"
    /\ lpos[j].at = "unlock_out"
    /\ xnlock_put_irqrestore(j)
    /\ lpos' = [lpos EXCEPT ![j] = Idle]
    /\ Done("join", j, "none")
    /\ UNCHANGED <<kind, synchVars, taskVars, semHist, toseqVars, threadVars,
                   histVars>>

\* the steps of a rtdm_task_join_nrt call of j that is under way
JoinStep(j) == join_while(j) \/ join_put(j) \/ join_get(j) \/ join_return(j)

\* the callers of rtdm_task_join_nrt: the tasks that are not real-time tasks
Joiners == Tasks \ Threads

\* every other service runs its critical section in one step, with
\* interrupts off, while nobody holds the lock
StepJoin ==
    \/ \E j \in Joiners, task \in Threads : rtdm_task_join_nrt(j, task)
    \/ \E j \in Joiners : join_while(j)
    \/ \E j \in Joiners : join_put(j)
    \/ \E j \in Joiners : join_get(j)
    \/ \E j \in Joiners : join_return(j)
    \/ \E t \in Threads, period \in Periods, r1 \in InitResults,
          r2 \in PeriodicResults, r3 \in StartResults :
           LockFree /\ rtdm_task_init(t, period, r1, r2, r3) /\ Unlocked
    \/ \E t \in Threads : LockFree /\ TaskExit(t)

\* a non-real-time caller that is in the loop goes on: Linux schedules it
\* again and msleep returns
FairJoin == \A j \in Joiners : WF_vars(JoinStep(j))

\* tasks that are created and exit, and the callers that join them
SpecJoin == InitTask /\ [][StepJoin]_vars /\ FairJoin

(* ---- the invocation environment of the blocking services ---- *)

\* return -EPERM: the service is left before xnlock_get_irqsave
ReturnEPERM(op, t) ==
    /\ Done(op, t, "EPERM")
    /\ UNCHANGED <<kind, synchVars, taskVars, semHist, toseqVars, threadVars,
                   lockVars, histVars>>

\* the assertion macro of the nucleus: the condition is tested, and the
\* action taken when it fails, in every build
AssertFails(cond) == ~cond

\* variant: the assertion is missing, the body runs in any context
XENO_ASSERT_missing(op, t, unblockable, body) == body

\* XENO_ASSERT(RTDM, !xnpod_unblockable_p(), return -EPERM;) as the first
\* statement of a service, and then the body of the service; unblockable is
\* the value of xnpod_unblockable_p() in the context of the call
XENO_ASSERT(op, t, unblockable, body) ==
    IF AssertFails(~unblockable) THEN ReturnEPERM(op, t) ELSE body

\* the arguments of the calls whose context is followed: non-blocking or
\* without timeout
CtxArgs == {<<0 - 1, NoSeq>>, <<0, NoSeq>>}

\* the blocking services, called by task t from a context that can block or
\* (unblockable) from one that cannot
rtdm_event_timedwait_from(t, unblockable, to, sq) ==
    /\ kind = "event"
    /\ pc[t] = "run"
    /\ XENO_ASSERT("wait", t, unblockable,
                   rtdm_event_timedwait(t, to, sq) /\ Untimed)

rtdm_sem_timeddown_from(t, unblockable, to, sq) ==
    /\ kind = "sem"
    /\ pc[t] = "run"
    /\ XENO_ASSERT("down", t, unblockable,
                   rtdm_sem_timeddown(t, to, sq) /\ Untimed)

rtdm_mutex_timedlock_from(t, unblockable, to, sq) ==
    /\ kind = "mutex"
    /\ pc[t] = "run"
    /\ XENO_ASSERT("lock", t, unblockable,
                   rtdm_mutex_timedlock(t, to, sq) /\ Untimed)

rtdm_task_sleep_from(t, unblockable, delay) ==
    /\ thread[t] = "started"
    /\ pc[t] = "run"
    /\ XENO_ASSERT("sleep", t, unblockable,
                   rtdm_task_sleep(t, delay) /\ Unlocked)

rtdm_task_sleep_until_from(t, unblockable, wakeup_time) ==
    /\ thread[t] = "started"
    /\ pc[t] = "run"
    /\ XENO_ASSERT("sleep_until", t, unblockable,
                   rtdm_task_sleep_until(t, wakeup_time) /\ Unlocked)

\* a call of a blocking service by task t from the context given by u
CallFrom(t, u) ==
    \/ \E a \in CtxArgs : rtdm_event_timedwait_from(t, u, a[1], a[2])
    \/ \E a \in CtxArgs : rtdm_sem_timeddown_from(t, u, a[1], a[2])
    \/ \E a \in CtxArgs : rtdm_mutex_timedlock_from(t, u, a[1], a[2])
    \/ \E delay \in 0..1 : rtdm_task_sleep_from(t, u, delay)
    \/ \E w \in 0..1 : rtdm_task_sleep_until_from(t, u, w)

\* the task of a resumed call runs on: a sleep, or a wait, down or lock
ResumeFrom(t) ==
    \/ rtdm_task_sleep_resume(t) /\ Unlocked
    \/ rtdm_task_sleep_until_resume(t) /\ Unlocked
    \/ thread[t] = "started" /\ Resume(t) /\ Untimed

StepCtx ==
    \/ \E t \in Tasks, a \in CtxArgs, u \in BOOLEAN :
           rtdm_event_timedwait_from(t, u, a[1], a[2])
    \/ \E t \in Tasks, a \in CtxArgs, u \in BOOLEAN :
           rtdm_sem_timeddown_from(t, u, a[1], a[2])
    \/ \E t \in Tasks, a \in CtxArgs, u \in BOOLEAN :
           rtdm_mutex_timedlock_from(t, u, a[1], a[2])
    \/ \E delay \in 0..1, u \in BOOLEAN :
           rtdm_task_sleep_from(Driver, u, delay)
    \/ \E w \in 0..1, u \in BOOLEAN :
           rtdm_task_sleep_until_from(Driver, u, w)
    \/ \E t \in Tasks : ResumeFrom(t)
    \/ rtdm_event_signal /\ Untimed
    \/ rtdm_sem_up /\ Untimed
    \/ \E t \in Tasks : rtdm_mutex_unlock(t) /\ Untimed
    \/ \E t \in Tasks : rtdm_task_unblock(t) /\ Untimed

\* the blocking services called from contexts that can and cannot block; the
\* delay services are called by the driver routine's task
SpecCtx == Init /\ [][StepCtx]_vars

\* the event services with the calling context of the wait
StepEventFrom ==
    \/ NextCommon
    \/ rtdm_event_signal /\ Untimed
    \/ rtdm_event_clear /\ Untimed
    \/ \E t \in Tasks, a \in Args :
           rtdm_event_timedwait_from(t, FALSE, a[1], a[2])
    \/ \E t \in Tasks, a \in CtxArgs :
           rtdm_event_timedwait_from(t, TRUE, a[1], a[2])
    \/ \E t \in Tasks : rtdm_event_timedwait_resume(t) /\ Untimed

SpecEventFrom == InitEvent /\ [][StepEventFrom]_vars

\* an event that is signalled, cleared, waited for and destroyed, but never
\* pulsed: a waiter resumed without a wake-up bit was woken by a signal
StepSignal ==
    \/ rtdm_event_signal /\ Untimed
    \/ rtdm_event_clear /\ Untimed
    \/ \E t \in Tasks, a \in Args : rtdm_event_timedwait(t, a[1], a[2]) /\ Untimed
    \/ \E t \in Tasks : rtdm_event_timedwait_resume(t) /\ Untimed
    \/ _rtdm_synch_flush({XNRMID}) /\ Untimed
    \/ \E t \in Tasks : rtdm_task_unblock(t) /\ Untimed
    \/ Tick /\ Untimed

SpecSignal == InitEvent /\ [][StepSignal]_vars

\* an event that is pulsed at any time and signalled only while nobody
\* sleeps on it: a waiter resumed without a wake-up bit was woken by a pulse
StepPulse ==
    \/ rtdm_event_pulse /\ Untimed
    \/ pendq = {} /\ rtdm_event_signal /\ Untimed
    \/ \E t \in Tasks, a \in Args : rtdm_event_timedwait(t, a[1], a[2]) /\ Untimed
    \/ \E t \in Tasks : rtdm_event_timedwait_resume(t) /\ Untimed
    \/ \E t \in Tasks : rtdm_task_unblock(t) /\ Untimed
    \/ Tick /\ Untimed

SpecPulse == InitEvent /\ [][StepPulse]_vars

\* the mutex services with the context of the lock calls
StepMutexFrom ==
    \/ NextCommon
    \/ \E t \in Tasks, a \in Args :
           rtdm_mutex_timedlock_from(t, FALSE, a[1], a[2])
    \/ \E t \in Tasks, a \in CtxArgs :
           rtdm_mutex_timedlock_from(t, TRUE, a[1], a[2])
    \/ \E t \in Tasks : rtdm_mutex_timedlock_resume(t) /\ Untimed
    \/ \E t \in Tasks : rtdm_mutex_unlock(t) /\ Untimed

SpecMutexFrom == InitMutex /\ [][StepMutexFrom]_vars

(* ---- the break-retry loop of rtdm_mutex_timedlock, with the date ---- *)

\* the driver routine, which does not hold the mutex, calls
\* rtdm_mutex_timedlock with timeout to > 0 and either no timeout sequence or
\* one that was initialised with to just now; the timeout of the call ends
\* at the current date plus to
TimedLock(to, sq) ==
    /\ ~holds[Driver]
    /\ rtdm_mutex_timedlock(Driver, to, sq)
    /\ deadline' = date + xnpod_ns2ticks(to)
    /\ UNCHANGED <<toseqVars, threadVars, lockVars, nBreak>>

StepRetry ==
    \/ \E to \in 1..MaxSeqTimeout : TimedLock(to, NoSeq) \/ TimedLock(to, to)
    \/ \E t \in Tasks \ {Driver} : rtdm_mutex_timedlock(t, 0 - 1, NoSeq) /\ Untimed
    \/ \E t \in Tasks : rtdm_mutex_timedlock_resume(t) /\ Untimed
    \/ \E t \in Tasks : rtdm_mutex_unlock(t) /\ Untimed
    \/ _rtdm_synch_flush({XNRMID}) /\ Untimed
    \/ rtdm_task_unblock(Driver) /\ Untimed
    \/ ClockTick /\ Unlocked

\* a driver routine that locks the mutex with a timeout while other tasks
\* take and release it, explicit unblocks of the routine, and the clock
SpecRetry == InitMutex /\ [][StepRetry]_vars

(* ---- liveness of rtdm_mutex_lock ---- *)

\* rtdm_mutex_lock(mutex) is rtdm_mutex_timedlock(mutex, 0, NULL); a task
\* that has the mutex does not ask for it again
rtdm_mutex_lock(t) ==
    /\ ~holds[t]
    /\ rtdm_mutex_timedlock(t, 0, NoSeq)
    /\ Untimed

\* an explicit unblock, of which at most MaxBreak are delivered
BoundedUnblock(t) ==
    /\ nBreak < MaxBreak
    /\ rtdm_task_unblock(t)
    /\ nBreak' = nBreak + 1
    /\ UNCHANGED <<toseqVars, threadVars, lockVars, deadline>>

\* rtdm_mutex_unlock by the owner hands the mutex to waiter w
HandOffTo(w) ==
    \E t \in Tasks : rtdm_mutex_unlock(t) /\ Untimed /\ owner' = w

StepLive ==
    \/ \E t \in Tasks : rtdm_mutex_lock(t)
    \/ \E t \in Tasks : rtdm_mutex_timedlock_resume(t) /\ Untimed
    \/ \E t \in Tasks : rtdm_mutex_unlock(t) /\ Untimed
    \/ \E t \in Tasks : BoundedUnblock(t)

\* scheduling is fair: a resumed task runs, every owner unlocks, and a
\* waiter is not passed over for ever when the mutex is handed on
FairLive ==
    /\ \A t \in Tasks : WF_vars(rtdm_mutex_timedlock_resume(t) /\ Untimed)
    /\ \A t \in Tasks : WF_vars(rtdm_mutex_unlock(t) /\ Untimed)
    /\ \A w \in Tasks : SF_vars(HandOffTo(w))

\* a mutex that is never deleted, tasks that lock it without timeout and
\* unlock it, and finitely many explicit unblocks
SpecLive == InitMutex /\ [][StepLive]_vars /\ FairLive

(* ---- the lock discipline of the services ---- *)

\* the services that take nklock themselves
LockedOps ==
    {"flush", "signal", "wait", "clear", "down", "up", "lock", "sleep_until"}

\* the services that can suspend the caller
BlockingOps == {"wait", "down", "lock", "sleep_until"}

\* task t can call service op: the blocking services are called by started
\* real-time tasks, rtdm_task_sleep_until by the driver routine's task, the
\* other services by the callers outside the real-time tasks, and each
\* service on an object of its kind
Callable(t, op) ==
    /\ op \in LockedOps
    /\ op \in BlockingOps <=> thread[t] = "started"
    /\ op = "sleep_until" => t = Driver
    /\ thread[t] \in {"started", "none"}
    /\ op \in {"signal", "wait", "clear"} => kind = "event"
    /\ op \in {"down", "up"} => kind = "sem"
    /\ op = "lock" => kind = "mutex"

\* where a service goes on after its critical section has settled on res:
\* into the suspension of xnsynch_sleep_on / xnpod_suspend_thread, or to
\* unlock_out (by falling through, or by goto unlock_out on the early exits)
ExitPlace(res) ==
    IF res \in {"blocked", "restart"} THEN "sleep_on" ELSE "unlock_out"

\* the arguments of the blocking calls whose lock operations are followed:
\* non-blocking, without timeout, with an expired timeout sequence, and with
\* a timeout of one tick
LockArgs == {a \in {<<0 - 1, NoSeq>>, <<0, NoSeq>>, <<1, 0>>, <<1, NoSeq>>} : a \in Args}

\* a service begins: xnlock_get_irqsave(&nklock, s)
service_get(t, op) ==
    /\ lpos[t] = Idle
    /\ pc[t] = "run"
    /\ Callable(t, op)
    /\ xnlock_get_irqsave(t)
    /\ lpos' = [lpos EXCEPT ![t] = [op |-> op, at |-> "locked", arg |-> NoTask]]
    /\ JoinFrame

\* the critical section of the service of t, up to its end or to the
\* suspension of t
CriticalSection(t) ==
    \/ /\ lpos[t].op = "flush"
       /\ \E reason \in FlushReasons(kind) : _rtdm_synch_flush(reason)
       /\ UNCHANGED <<toseqVars, threadVars>>
    \/ /\ lpos[t].op = "signal"
       /\ rtdm_event_signal
       /\ UNCHANGED <<toseqVars, threadVars>>
    \/ /\ lpos[t].op = "clear"
       /\ rtdm_event_clear
       /\ UNCHANGED <<toseqVars, threadVars>>
    \/ /\ lpos[t].op = "up"
       /\ rtdm_sem_up
       /\ UNCHANGED <<toseqVars, threadVars>>
    \/ /\ lpos[t].op = "wait"
       /\ \E a \in LockArgs : rtdm_event_timedwait(t, a[1], a[2])
       /\ UNCHANGED <<toseqVars, threadVars>>
    \/ /\ lpos[t].op = "down"
       /\ \E a \in LockArgs : rtdm_sem_timeddown(t, a[1], a[2])
       /\ UNCHANGED <<toseqVars, threadVars>>
    \/ /\ lpos[t].op = "lock"
       /\ \E a \in LockArgs : rtdm_mutex_timedlock(t, a[1], a[2])
       /\ UNCHANGED <<toseqVars, threadVars>>
    \/ /\ lpos[t].op = "sleep_until"
       /\ \E w \in 0..1 : rtdm_task_sleep_until(t, w)

\* the rest of the critical section, after the suspension
CriticalSectionResume(t) ==
    \/ /\ lpos[t].op = "wait"
       /\ rtdm_event_timedwait_resume(t)
       /\ UNCHANGED <<toseqVars, threadVars>>
    \/ /\ lpos[t].op = "down"
       /\ rtdm_sem_timeddown_resume(t)
       /\ UNCHANGED <<toseqVars, threadVars>>
    \/ /\ lpos[t].op = "lock"
       /\ rtdm_mutex_timedlock_resume(t)
       /\ UNCHANGED <<toseqVars, threadVars>>
    \/ /\ lpos[t].op = "sleep_until"
       /\ rtdm_task_sleep_until_resume(t)

\* the nucleus switches a suspended caller out: the lock is free for the
\* other contexts until the caller is switched in again
SwitchedOut(t, at) ==
    nklock' = [nklock EXCEPT ![t] = IF at = "sleep_on" THEN 0 ELSE nklock[t]]

\* the critical section is executed
service_body(t) ==
    /\ lpos[t].op \in LockedOps
    /\ lpos[t].at = "locked"
    /\ CriticalSection(t)
    /\ Goto(t, ExitPlace(last'.res))
    /\ SwitchedOut(t, ExitPlace(last'.res))
    /\ UNCHANGED histVars

\* the suspended caller was resumed and is switched in: it holds the lock again
service_switch_in(t) ==
    /\ lpos[t].op \in BlockingOps
    /\ lpos[t].at = "sleep_on"
    /\ pc[t] = "ready"
    /\ xnlock_get_irqsave(t)
    /\ Goto(t, "woken")
    /\ JoinFrame

\* the caller tests why it was resumed
service_resume(t) ==
    /\ lpos[t].op \in BlockingOps
    /\ lpos[t].at = "woken"
    /\ CriticalSectionResume(t)
    /\ Goto(t, ExitPlace(last'.res))
    /\ SwitchedOut(t, ExitPlace(last'.res))
    /\ UNCHANGED histVars

\* variant: the early exit of the non-blocking mode returns at once
service_unlock_out_early(t) ==
    /\ lpos[t].op \in LockedOps
    /\ lpos[t].at = "unlock_out"
    /\ IF last.res = "EWOULDBLOCK" THEN UNCHANGED nklock
       ELSE xnlock_put_irqrestore(t)
    /\ lpos' = [lpos EXCEPT ![t] = Idle]
    /\ JoinFrame

\* unlock_out: xnlock_put_irqrestore(&nklock, s); return err
service_unlock_out(t) ==
    /\ lpos[t].op \in LockedOps
    /\ lpos[t].at = "unlock_out"
    /\ xnlock_put_irqrestore(t)
    /\ lpos' = [lpos EXCEPT ![t] = Idle]
    /\ JoinFrame

\* tasks 1..MaxThreads are started real-time tasks, the others call from the
\* root context
InitLock ==
    /\ kind \in Kinds
    /\ status = {}
    /\ owner = NoTask
    /\ value \in (IF kind = "sem" THEN 0..1 ELSE {0})
    /\ initValue = value
    /\ pendq = {}
    /\ pc = [t \in Tasks |-> "run"]
    /\ info = [t \in Tasks |-> {}]
    /\ timeout = [t \in Tasks |-> 0]
    /\ seq = [t \in Tasks |-> NoSeq]
    /\ timer = [t \in Tasks |-> 0]
    /\ holds = [t \in Tasks |-> FALSE]
    /\ nUp = 0
    /\ nDown = 0
    /\ last = [op |-> "init", t |-> NoTask, res |-> "none"]
    /\ date = 0
    /\ toseq = NoSeq
    /\ seqT = 0
    /\ seqT0 = 0
    /\ thread = [t \in Tasks |-> IF t \in Threads THEN "started" ELSE "none"]
    /\ nkcalls = << >>
    /\ nklock = [t \in Tasks |-> 0]
    /\ lpos = [t \in Tasks |-> Idle]
    /\ deadline = 0
    /\ nBreak = 0

\* the nucleus and rtdm_mutex_unlock run their critical sections in one step,
\* with interrupts off, while nobody holds the lock
StepLock ==
    \/ \E t \in Tasks, op \in LockedOps : service_get(t, op)
    \/ \E t \in Tasks : service_body(t)
    \/ \E t \in Tasks : service_switch_in(t)
    \/ \E t \in Tasks : service_resume(t)
    \/ \E t \in Tasks : service_unlock_out(t)
    \/ \E j \in Joiners, task \in Threads : rtdm_task_join_nrt(j, task)
    \/ \E j \in Joiners : join_while(j)
    \/ \E j \in Joiners : join_put(j)
    \/ \E j \in Joiners : join_get(j)
    \/ \E j \in Joiners : join_return(j)
    \/ \E t \in Threads, j \in Joiners :
           lpos[t] = Idle /\ lpos[j].arg = t /\ LockFree /\ TaskExit(t)
    \/ \E t \in Tasks : LockFree /\ rtdm_mutex_unlock(t) /\ Untimed
    \/ \E t \in Tasks : LockFree /\ rtdm_task_unblock(t) /\ Untimed
    \/ LockFree /\ Tick /\ Untimed

SpecLock == InitLock /\ [][StepLock]_vars

(* ---- the tests of the wake-up bits, for every combination of bits ---- *)

\* every task was suspended in a wait, down or lock call and has been
\* resumed, all of them with the same set of wake-up bits, drawn from all
\* the combinations of XNTIMEO, XNRMID and XNBREAK; a mutex is handed to one
\* waiter only, so its waiters carry at least one bit
InitWake ==
    /\ kind \in Kinds
    /\ \E bits \in SUBSET WakeBits :
           /\ kind = "mutex" => bits # {}
           /\ info = [t \in Tasks |-> bits]
           /\ status = (IF XNRMID \in bits THEN {RTDM_SYNCH_DELETED} ELSE {})
    /\ owner = NoTask
    /\ value = 0
    /\ initValue = 0
    /\ pendq = {}
    /\ pc = [t \in Tasks |-> "ready"]
    /\ timeout = [t \in Tasks |-> 0]
    /\ seq = [t \in Tasks |-> NoSeq]
    /\ timer = [t \in Tasks |-> 0]
    /\ holds = [t \in Tasks |-> FALSE]
    /\ nUp = 0
    /\ nDown = 0
    /\ last = [op |-> "init", t |-> NoTask, res |-> "none"]
    /\ date = 0
    /\ toseq = NoSeq
    /\ seqT = 0
    /\ seqT0 = 0
    /\ thread = [t \in Tasks |-> "started"]
    /\ nkcalls = << >>
    /\ nklock = [t \in Tasks |-> 0]
    /\ lpos = [t \in Tasks |-> Idle]
    /\ deadline = 0
    /\ nBreak = 0

\* the resumed calls run on, and a lock call that went back to sleep is
\* unblocked again
StepWake ==
    \/ \E t \in Tasks : rtdm_event_timedwait_resume(t) /\ Untimed
    \/ \E t \in Tasks : rtdm_sem_timeddown_resume(t) /\ Untimed
    \/ \E t \in Tasks : rtdm_mutex_timedlock_resume(t) /\ Untimed
    \/ \E t \in Tasks : rtdm_task_unblock(t) /\ Untimed

SpecWake == InitWake /\ [][StepWake]_vars

(* ---- _rtdm_synch_flush statement by statement ---- *)

\* the reasons the helper is followed with: XNRMID (rtdm_*_destroy),
\* 0 (rtdm_event_pulse) and, as a reason that is neither, XNBREAK
FlushOps == {"flush_rmid", "flush_none", "flush_break"}

ReasonOf(op) ==
    IF op = "flush_rmid" THEN {XNRMID}
    ELSE IF op = "flush_break" THEN {XNBREAK}
    ELSE {}

\* variant: the waiters are woken before the status word is written
FlushOrder_wakefirst == <<"wake", "setbits">>

\* the two statements of the critical section, in the order of the code
FlushOrder == <<"setbits", "wake">>

\* the place after place p of the critical section
NextPart(p) == IF p = FlushOrder[1] THEN FlushOrder[2] ELSE "unlock_out"

\* _rtdm_synch_flush(synch, reason) is called by c, with reason 0 on events
\* only, as rtdm_event_pulse does: xnlock_get_irqsave
flush_get(c, op) ==
    /\ lpos[c] = Idle
    /\ ReasonOf(op) \in FlushReasons(kind) \cup {{XNBREAK}}
    /\ pc[c] = "run"
    /\ xnlock_get_irqsave(c)
    /\ lpos' = [lpos EXCEPT ![c] = [op |-> op, at |-> FlushOrder[1], arg |-> NoTask]]
    /\ JoinFrame

\* if (reason == XNRMID) setbits(synch->status, RTDM_SYNCH_DELETED)
flush_setbits(c) ==
    /\ lpos[c].op \in FlushOps
    /\ lpos[c].at = "setbits"
    /\ status' = FlushStatus(status, ReasonOf(lpos[c].op))
    /\ Goto(c, NextPart("setbits"))
    /\ UNCHANGED <<kind, owner, value, pendq, taskVars, semHist, toseqVars,
                   threadVars, nklock, histVars, last>>

\* xnsynch_flush(synch, reason), and xnpod_schedule() when it asks for it
flush_wake(c) ==
    /\ lpos[c].op \in FlushOps
    /\ lpos[c].at = "wake"
    /\ xnsynch_flush(ReasonOf(lpos[c].op))
    /\ Done("flush", NoTask, lpos[c].op)
    /\ Goto(c, NextPart("wake"))
    /\ UNCHANGED <<kind, status, owner, value, holds, semHist, toseqVars,
                   threadVars, nklock, histVars>>

\* xnlock_put_irqrestore and return
flush_put(c) ==
    /\ lpos[c].op \in FlushOps
    /\ lpos[c].at = "unlock_out"
    /\ xnlock_put_irqrestore(c)
    /\ lpos' = [lpos EXCEPT ![c] = Idle]
    /\ JoinFrame

\* the real-time tasks make calls without timeout and non-blocking calls,
\* the resource is released by signal, up and unlock, and a caller outside
\* the real-time tasks flushes the object; the other services run their
\* critical sections in one step while nobody holds the lock
StepFlush ==
    \/ \E c \in Joiners, op \in FlushOps : flush_get(c, op)
    \/ \E c \in Joiners : flush_setbits(c)
    \/ \E c \in Joiners : flush_wake(c)
    \/ \E c \in Joiners : flush_put(c)
    \/ \E t \in Threads, a \in CtxArgs : LockFree /\ Call(t, a) /\ Untimed
    \/ \E t \in Threads : LockFree /\ Resume(t) /\ Untimed
    \/ LockFree /\ rtdm_event_signal /\ Untimed
    \/ LockFree /\ rtdm_sem_up /\ Untimed
    \/ \E t \in Threads : LockFree /\ rtdm_mutex_unlock(t) /\ Untimed

SpecFlush == Init /\ [][StepFlush]_vars

\* the arguments of the calls whose waiters are followed on the wait queue:
\* non-blocking, without timeout, and with a timeout of one tick
QueueArgs == {a \in {<<0 - 1, NoSeq>>, <<0, NoSeq>>, <<1, NoSeq>>} : a \in Args}

\* the three primitives with waiters that time out, are unblocked, are
\* flushed or are served
StepQueue ==
    \/ NextCommon
    \/ \E t \in Tasks, a \in QueueArgs : Call(t, a) /\ Untimed
    \/ \E t \in Tasks : Resume(t) /\ Untimed
    \/ rtdm_event_signal /\ Untimed
    \/ rtdm_event_clear /\ Untimed
    \/ rtdm_sem_up /\ Untimed
    \/ \E t \in Tasks : rtdm_mutex_unlock(t) /\ Untimed

SpecQueue == Init /\ [][StepQueue]_vars

\* the thread exists and was not deleted
Live(st) == st \in {"dormant", "started"}

\* C19: rtdm_task_init never returns an error together with a live task.
\* When xnpod_init_thread fails its error is returned and nothing is deleted;
\* when the periodic setup or the start fails afterwards the thread is
\* deleted, as the last nucleus call, and the error of the failed call is
\* returned; 0 is returned exactly when initialisation, the periodic setup
\* (made only for period # XN_INFINITE) and the start all succeeded, and they
\* were then made in that order and the thread is started.
TaskInitCleanup ==
    [][last'.op = "task_init" =>
         \A t \in {last'.t} \cap Tasks, period \in Periods, r1 \in InitResults,
            r2 \in PeriodicResults, r3 \in StartResults :
            (/\ last'.res = TaskInit(period, r1, r2, r3).res
             /\ rtdm_task_init(t, period, r1, r2, r3)) =>
              /\ last'.res # "OK" => ~Live(thread'[t])
              /\ r1 # "OK" => (last'.res = r1 /\ nkcalls' = <<"init">>)
              /\ (r1 = "OK" /\ period # XN_INFINITE /\ r2 # "OK") =>
                     /\ last'.res = r2
                     /\ nkcalls' = <<"init", "periodic", "delete">>
              /\ (r1 = "OK" /\ (period = XN_INFINITE \/ r2 = "OK") /\ r3 # "OK") =>
                     /\ last'.res = r3
                     /\ nkcalls'[Len(nkcalls')] = "delete"
                     /\ nkcalls'[Len(nkcalls') - 1] = "start"
              /\ (last'.res = "OK") =
                     (r1 = "OK" /\ (period = XN_INFINITE \/ r2 = "OK") /\ r3 = "OK")
              /\ last'.res = "OK" =>
                     /\ thread'[t] = "started"
                     /\ nkcalls' = (IF period = XN_INFINITE
                                    THEN <<"init", "start">>
                                    ELSE <<"init", "periodic", "start">>)
              /\ nkcalls'[1] = "init"
              /\ \A i \in 1..Len(nkcalls') :
                     /\ nkcalls'[i] = "periodic" => (period # XN_INFINITE /\ i = 2)
                     /\ nkcalls'[i] = "delete" => (i = Len(nkcalls') /\ i > 1)
      ]_vars

\* C19 witness: the start of a periodic task failed; the thread was deleted
\* and the error of the start was returned
TaskInitCleanupWitness ==
    /\ last.op = "task_init"
    /\ last.res = "EBUSY"
    /\ thread[last.t] = "deleted"
    /\ nkcalls = <<"init", "periodic", "start", "delete">>

\* task t is suspended by rtdm_task_sleep_until
Sleeping(t) == thread[t] = "sleep_until" /\ pc[t] = "pend"

\* C20: rtdm_task_sleep_until returns 0 at once, without suspending the
\* caller, when the wake-up date is not later than the current date.
\* Otherwise the caller is suspended with a timer that fires at the wake-up
\* date: it is resumed by the clock tick that reaches that date, or before it
\* by an explicit unblock, and the call returns -EINTR exactly in the second
\* case and 0 in the first.
SleepUntil ==
    [][\A t \in Tasks :
          /\ \A w \in WakeupTimes :
                 rtdm_task_sleep_until(t, w) =>
                     IF xnpod_ns2ticks(w) <= date
                     THEN /\ last'.res = "OK"
                          /\ pc' = pc
                          /\ thread' = thread
                          /\ timer' = timer
                     ELSE /\ Sleeping(t)'
                          /\ date' + timer'[t] = xnpod_ns2ticks(w)
          /\ (Sleeping(t) /\ Sleeping(t)') =>
                 (timer'[t] > 0 /\ date' + timer'[t] = date + timer[t])
          /\ (Sleeping(t) /\ ~Sleeping(t)') =>
                 /\ pc'[t] = "ready"
                 /\ \/ /\ last'.op = "tick"
                       /\ timer[t] = 1
                       /\ info'[t] \cap WakeBits = {XNTIMEO}
                    \/ /\ last'.op = "unblock"
                       /\ last'.t = t
                       /\ timer[t] >= 1
                       /\ info'[t] \cap WakeBits = {XNBREAK}
          /\ (pc[t] = "ready" /\ pc'[t] = "ready") => info'[t] = info[t]
          /\ rtdm_task_sleep_until_resume(t) =>
                 /\ last'.res = (IF info[t] \cap WakeBits = {XNBREAK}
                                 THEN "EINTR" ELSE "OK")
                 /\ pc'[t] = "run"
                 /\ thread'[t] = "started"
      ]_vars

\* C20 witness: a task that was unblocked before its wake-up date returned
\* -EINTR
SleepUntilWitness ==
    /\ last.op = "sleep_until_wake"
    /\ last.res = "EINTR"
    /\ pc[last.t] = "run"
    /\ thread[last.t] = "started"

\* task t is suspended by rtdm_task_sleep
InSleep(t) == thread[t] = "sleep" /\ pc[t] = "pend"

TaskJoin ==
    /\ [][\A j \in Joiners :
             /\ (lpos[j].op = "join" /\ lpos'[j] = Idle) =>
                    /\ XNZOMBIE(thread[lpos[j].arg])
                    /\ nklock'[j] = 0
             /\ lpos'[j] # lpos[j] =>
                    UNCHANGED <<thread, pc, info, timer, pendq, status, nkcalls>>
         ]_vars
    /\ [](\A j \in Joiners :
             (lpos[j].op = "join" /\ lpos[j].at = "msleep") => nklock[j] = 0)
    /\ \A j \in Joiners, t \in Threads :
          (lpos[j].op = "join" /\ lpos[j].arg = t /\ XNZOMBIE(thread[t]))
              ~> (lpos[j] = Idle)

\* C22 witness: a call has returned after its target became a zombie
TaskJoinWitness ==
    /\ last.op = "join"
    /\ lpos[last.t] = Idle
    /\ \E t \in Threads : XNZOMBIE(thread[t])

HasMutex(t) == holds[t] \/ WokenClean(t)

\* the results of a lock call that did not get the mutex
LockErrors == {"EWOULDBLOCK", "ETIMEDOUT", "EIDRM", "EPERM"}

\* C24: mutex owner invariant.  In every reachable state the owner reference
\* is non-empty exactly when some task has the mutex (its lock call returned
\* 0, or unlock handed the mutex to it, and it has not unlocked since), and
\* it names that task.  A lock call that returns -EWOULDBLOCK, -ETIMEDOUT,
\* -EIDRM or -EPERM leaves the owner reference as it was: it never makes the
\* caller the owner.
MutexOwnerInvariant ==
    /\ []((owner # NoTask) = (\E t \in Tasks : HasMutex(t)))
    /\ [](\A t \in Tasks : HasMutex(t) => owner = t)
    /\ [][\A t \in Tasks :
             (/\ last'.op \in {"lock", "lock_wake"}
              /\ last'.t = t
              /\ last'.res \in LockErrors) =>
                 /\ owner' = owner
                 /\ holds' = holds
                 /\ owner # t => ~HasMutex(t)'
         ]_vars

\* C24 witness: a task whose lock call timed out does not have the mutex,
\* which is still owned by the task that holds it
MutexOwnerInvariantWitness ==
    /\ kind = "mutex"
    /\ last.op = "lock_wake"
    /\ last.res = "ETIMEDOUT"
    /\ owner \notin {NoTask, last.t}
    /\ holds[owner]
    /\ ~HasMutex(last.t)

\* C25: the mutex is non-recursive.  A lock call on a mutex that is owned
\* and not deleted has the same outcome whether the caller is the owner or
\* any other task: -EWOULDBLOCK for timeout < 0, else -ETIMEDOUT when its
\* timeout sequence has expired, else the caller is put on the wait queue
\* and suspended.  The mutex is not granted and the owner reference and the
\* set of holders are not changed.
MutexNonRecursive ==
    [][\A t \in Tasks :
          (/\ last'.op = "lock"
           /\ last'.t = t
           /\ owner # NoTask
           /\ ~Deleted) =>
              \A a \in CallArgs :
                  rtdm_mutex_timedlock(t, a[1], a[2]) =>
                      /\ owner' = owner
                      /\ holds' = holds
                      /\ last'.res # "OK"
                      /\ IF a[1] < 0
                         THEN /\ last'.res = "EWOULDBLOCK"
                              /\ UNCHANGED <<pc, pendq, timer>>
                         ELSE IF SeqExpired(a[1], a[2])
                         THEN /\ last'.res = "ETIMEDOUT"
                              /\ UNCHANGED <<pc, pendq, timer>>
                         ELSE /\ last'.res = "blocked"
                              /\ pc'[t] = "pend"
                              /\ pendq' = pendq \cup {t}
      ]_vars

\* C25 witness: the owner called lock again and sleeps on its own mutex
MutexNonRecursiveWitness ==
    /\ kind = "mutex"
    /\ last.op = "lock"
    /\ last.res = "blocked"
    /\ owner = last.t
    /\ holds[last.t]
    /\ last.t \in pendq
    /\ pc[last.t] = "pend"

\* C26: the break-retry loop of rtdm_mutex_timedlock is bounded by the
\* timeout of the call.  Whenever a lock call with a positive timeout sleeps
\* before its timeout has ended, its timer is set to fire at the date of the
\* call plus the timeout at the latest, however many explicit unblocks have
\* sent the call back to the wait: the unblocks cannot keep the call waiting
\* past its timeout.
MutexRetryBounded ==
    (pc[Driver] = "pend" /\ timer[Driver] > 0 /\ date < deadline) =>
        date + timer[Driver] <= deadline

\* C27: no waiter sleeps on a free mutex.  In every reachable state, also
\* after a waiter was explicitly unblocked and went back to the wait through
\* the restart path, a mutex that is not deleted and whose wait queue is not
\* empty has an owner.
NoWaiterOnFreeMutex ==
    (kind = "mutex" /\ ~Deleted /\ pendq # {}) => owner # NoTask

\* C28: mutex liveness.  On a mutex that is never deleted, a task blocked
\* in a lock call without timeout eventually returns 0 as the owner, provided
\* every owner eventually unlocks and scheduling is fair, also when the task
\* is explicitly unblocked a finite number of times while it waits.
MutexLiveness ==
    \A t \in Tasks : (pc[t] = "pend") ~> (holds[t] /\ owner = t /\ pc[t] = "run")

\* the error returns of rtdm_event_timedwait
WaitErrors == {"EPERM", "EIDRM", "EWOULDBLOCK", "ETIMEDOUT", "EINTR"}

\* C29: frame of the pending flag.  A step of rtdm_event_timedwait that
\* returns success (on the fast path or after a normal wake-up) leaves the
\* pending flag clear and the rest of the status as it was; a step that
\* returns -EPERM, -EIDRM, -EWOULDBLOCK, -ETIMEDOUT or -EINTR, or that
\* suspends the caller, leaves the status exactly as it was.
PendingFrame ==
    [][last'.op \in {"wait", "wait_wake"} =>
          /\ last'.res = "OK" =>
                 /\ ~Pending'
                 /\ status' \ {RTDM_EVENT_PENDING} = status \ {RTDM_EVENT_PENDING}
          /\ last'.res \in WaitErrors \cup {"blocked"} => status' = status
          /\ last'.res \in WaitErrors \cup {"OK", "blocked"}
      ]_vars

\* a wait timed out, the event was signalled before the waiter ran, and the
\* waiter has returned -ETIMEDOUT with the flag still pending
PendingFrameWitness ==
    /\ last.op = "wait_wake"
    /\ last.res = "ETIMEDOUT"
    /\ Pending

\* the places of a service at which its caller holds nklock, and those at
\* which it does not
LockedPlaces == {"locked", "woken", "unlock_out", "while", "loop"}
UnlockedPlaces == {"out", "sleep_on", "msleep"}

\* the steps in which a service reads or writes the status flags, the count,
\* the owner or the wait queue
AccessOps ==
    {"flush", "signal", "clear", "up", "wait", "wait_wake", "down", "down_wake",
     "lock", "lock_wake", "sleep_until", "sleep_until_wake"}

\* the service a step belongs to
ServiceOf(step) ==
    IF step = "wait_wake" THEN "wait"
    ELSE IF step = "down_wake" THEN "down"
    ELSE IF step = "lock_wake" THEN "lock"
    ELSE IF step = "sleep_until_wake" THEN "sleep_until"
    ELSE step

\* C30: lock discipline.  Every service (join, sleep_until, flush, signal,
\* wait, clear, down, up, lock) holds the global lock, taken once, at each
\* place where it reads or writes the status flags, the count, the owner,
\* the wait queue or the zombie flag, and does not hold it once it has
\* returned, whatever the exit path (the early exits for -EWOULDBLOCK and
\* for an expired timeout sequence included), nor while it is suspended or
\* sleeps between two polls; it never releases a lock it does not hold, and
\* at most one caller holds the lock.
LockDiscipline ==
    /\ [](\A t \in Tasks : nklock[t] \in {0, 1})
    /\ [](Cardinality({t \in Tasks : nklock[t] > 0}) <= 1)
    /\ [](\A t \in Tasks : lpos[t].at \in LockedPlaces => nklock[t] = 1)
    /\ [](\A t \in Tasks : lpos[t].at \in UnlockedPlaces => nklock[t] = 0)
    /\ [][(/\ last'.op \in AccessOps
           /\ <<synchVars, taskVars, semHist, thread, last>>' #
                  <<synchVars, taskVars, semHist, thread, last>>) =>
              \E t \in Tasks : /\ nklock[t] = 1
                               /\ lpos[t].at \in {"locked", "woken"}
                               /\ lpos[t].op = ServiceOf(last'.op)
         ]_vars

\* a non-blocking call has taken the early exit and returned without the
\* lock while another caller is suspended in its service
LockDisciplineWitness ==
    /\ last.res = "EWOULDBLOCK"
    /\ last.t \in Tasks
    /\ lpos[last.t] = Idle
    /\ LockFree
    /\ \E w \in Tasks : lpos[w].at = "sleep_on" /\ pc[w] = "pend"

\* the steps of the calls that take a timeout sequence
ConsumingOps == {"wait", "wait_wake", "down", "down_wake", "lock", "lock_wake"}

\* C31: the blocking calls never write the timeout sequence.  No step of
\* rtdm_event_timedwait, rtdm_sem_timeddown or rtdm_mutex_timedlock, the
\* restart of the lock after an unblock included, changes the handle, and so
\* the handle holds, after any number of calls, what rtdm_toseq_init stored:
\* the date of the initialisation plus T for T > 0, and T otherwise.
ToseqReadOnly ==
    /\ [](toseq # NoSeq =>
            toseq = (IF seqT > 0 THEN seqT0 + xnpod_ns2ticks(seqT) ELSE seqT))
    /\ [][last'.op \in ConsumingOps => toseq' = toseq]_vars

\* the driver routine's lock call with the sequence went back to the wait
\* after an unblock, later than the initialisation, and the handle still
\* holds the deadline
ToseqReadOnlyWitness ==
    /\ last.op = "lock_wake"
    /\ last.t = Driver
    /\ last.res = "restart"
    /\ seq[Driver] # NoSeq
    /\ seqT > 0
    /\ date > seqT0
    /\ toseq = seqT0 + seqT

\* the waiters an rtdm_sem_up has woken and that have not run yet: each
\* carries the unit of that up
HandedOver == {t \in Tasks : WokenClean(t)}

\* C32: semaphore units are conserved.  In every reachable state the downs
\* that returned 0 number at most the initial count plus the ups performed;
\* more exactly, the units are all accounted for: the count, the downs that
\* returned 0 and the waiters woken by an up that have not returned yet add
\* up to the initial count plus the ups.  A waiter woken by an up then
\* returns 0, and only it takes that unit.
SemConservation ==
    /\ [](kind = "sem" =>
            /\ nDown <= initValue + nUp
            /\ value + nDown + Cardinality(HandedOver) = initValue + nUp)
    /\ [][kind = "sem" =>
            /\ (last'.op = "up" /\ last'.res = "woke") =>
                   (last'.t \in HandedOver' /\ last'.t \notin HandedOver)
            /\ \A t \in HandedOver :
                   \/ t \in HandedOver'
                   \/ last'.op = "down_wake" /\ last'.t = t /\ last'.res = "OK"
         ]_vars

\* every unit was taken, one of them by a waiter that an up had woken
SemConservationWitness ==
    /\ kind = "sem"
    /\ last.op = "down_wake"
    /\ last.res = "OK"
    /\ initValue > 0
    /\ nUp > 0
    /\ value = 0
    /\ nDown = initValue + nUp

\* C33: a waiter woken by rtdm_event_signal returns 0 even when the pending
\* flag was cleared again before it runs.  A clear, or the fast-path wait of
\* another task, leaves the woken waiter as it is, and the waiter's return
\* is decided by its wake-up bits alone: with the flag clear at its
\* resumption it still returns 0.
SignalWakeNotRetested ==
    [][\A t \in Tasks :
          WokenClean(t) =>
              /\ last'.op \in {"clear", "wait"} => WokenClean(t)'
              /\ (~Pending /\ last'.op = "wait_wake" /\ last'.t = t) =>
                     (last'.res = "OK" /\ pc'[t] = "run" /\ ~Pending')
      ]_vars

\* the flag has just been cleared while a waiter that a signal woke has not
\* run yet
SignalWakeNotRetestedWitness ==
    /\ last.op \in {"clear", "wait"}
    /\ last.res \in {"none", "OK"}
    /\ ~Pending
    /\ ~Deleted
    /\ \E t \in Tasks : WokenClean(t) /\ last.t # t

Precedence(bits, brk) ==
    IF XNTIMEO \in bits THEN "ETIMEDOUT"
    ELSE IF XNRMID \in bits THEN "EIDRM"
    ELSE IF XNBREAK \in bits THEN brk
    ELSE "OK"

\* C35: wake-reason precedence.  Whatever combination of the timeout,
\* deletion and break bits a resumed task carries, the event wait, the
\* semaphore down and the mutex lock give the same result: -ETIMEDOUT when
\* the timeout bit is among them, else -EIDRM when the deletion bit is, else
\* what the service makes of a break (-EINTR for wait and down, the retry for
\* lock); a lock call retries only when it carries the break bit alone.
WakePrecedence ==
    [][\A t \in Tasks :
          (pc[t] = "ready" /\ last'.t = t) =>
              /\ last'.op = "wait_wake" =>
                     last'.res = Precedence(info[t], "EINTR")
              /\ last'.op = "down_wake" =>
                     last'.res = Precedence(info[t], "EINTR")
              /\ last'.op = "lock_wake" =>
                     /\ last'.res = Precedence(info[t], "restart")
                     /\ last'.res = "restart" => info[t] \cap WakeBits = {XNBREAK}
                     /\ last'.res # "restart" => pc'[t] = "run"
      ]_vars

\* a lock call that carried the break bit together with the timeout bit has
\* returned -ETIMEDOUT (the other waiters, resumed with the same bits, still
\* show them)
WakePrecedenceWitness ==
    /\ kind = "mutex"
    /\ last.op = "lock_wake"
    /\ last.res = "ETIMEDOUT"
    /\ pc[last.t] = "run"
    /\ nBreak = 0
    /\ \E u \in Tasks \ {last.t} :
           pc[u] = "ready" /\ info[u] \cap WakeBits = {XNTIMEO, XNBREAK}

\* C36: the timeout sequence is consulted only for a timeout > 0.  A wait,
\* down or lock call of the driver routine that has to block and is given
\* timeout 0 with its handle sleeps without timer, whatever the handle holds,
\* a deadline in the past included, and so does a lock call that goes back
\* to the wait after an unblock; with a timeout < 0 the call returns
\* -EWOULDBLOCK, never -ETIMEDOUT, and does not suspend the caller.
SeqOnlyForPositive ==
    [][/\ (~Deleted /\ ~Available /\ SeqCall(0)) =>
              /\ last'.res = "blocked"
              /\ pc'[Driver] = "pend"
              /\ Driver \in pendq'
              /\ timer'[Driver] = 0
       /\ (~Deleted /\ ~Available /\ SeqCall(0 - 1)) =>
              /\ last'.res = "EWOULDBLOCK"
              /\ pc'[Driver] = "run"
              /\ pendq' = pendq
       /\ (/\ timeout[Driver] = 0
           /\ info[Driver] \cap WakeBits = {XNBREAK}
           /\ rtdm_mutex_timedlock_resume(Driver)) =>
              /\ last'.res = "restart"
              /\ pc'[Driver] = "pend"
              /\ timer'[Driver] = 0
      ]_vars

\* the deadline of the handle has passed, and a call of the driver routine
\* with timeout 0 and the handle has just blocked without timer
SeqOnlyForPositiveWitness ==
    /\ seqT > 0
    /\ toseq # NoSeq
    /\ toseq <= date
    /\ last.op \in {"wait", "down", "lock"}
    /\ last.t = Driver
    /\ last.res = "blocked"
    /\ pc[Driver] = "pend"
    /\ timer[Driver] = 0

\* the driver's lock call, made with a timeout > 0, was explicitly unblocked
\* and is about to run on
Retrying ==
    /\ pc[Driver] = "ready"
    /\ info[Driver] \cap WakeBits = {XNBREAK}
    /\ timeout[Driver] > 0

FlushAt(c, p) == lpos[c].op \in FlushOps /\ lpos[c].at = p

\* C38: the flush helper and the deleted bit.  The helper sets the deleted
\* bit exactly when its reason is XNRMID and changes nothing else in the
\* status word; it wakes every waiter, each tagged with the reason; when the
\* reason is XNRMID the bit is already set at the moment the waiters are
\* woken; and as long as the bit is not set, after a flush with another
\* reason as before it, wait, down and lock do not return -EIDRM.
FlushSetsDeletedFirst ==
    [][/\ \A c \in Joiners :
              /\ FlushAt(c, "setbits") /\ ~FlushAt(c, "setbits")' =>
                     /\ Deleted' = (Deleted \/ lpos[c].op = "flush_rmid")
                     /\ Pending' = Pending
                     /\ pendq' = pendq
                     /\ pc' = pc
              /\ FlushAt(c, "wake") /\ ~FlushAt(c, "wake")' =>
                     /\ status' = status
                     /\ pendq' = {}
                     /\ \A t \in pendq :
                            /\ pc'[t] = "ready"
                            /\ info'[t] \cap WakeBits = ReasonOf(lpos[c].op)
                     /\ lpos[c].op = "flush_rmid" => Deleted
       /\ (~Deleted /\ last'.op \in {"wait", "down", "lock"}) =>
              last'.res # "EIDRM"
       /\ (~Deleted /\ ~Deleted' /\ last'.op = "flush") =>
              \A t \in Tasks : XNRMID \notin info'[t]
      ]_vars

\* a waiter was flushed with a reason other than deletion and has not run
\* yet; the object is not marked deleted, and the call another task made
\* after the flush has blocked
FlushSetsDeletedFirstWitness ==
    /\ ~Deleted
    /\ last.op \in {"wait", "down", "lock"}
    /\ last.res = "blocked"
    /\ LockFree
    /\ \E u \in Tasks \ {last.t} :
           pc[u] = "ready" /\ info[u] \cap WakeBits = {XNBREAK}

\* the steps that wake waiters or hand the resource over
ServingOps == {"signal", "up", "unlock"}

\* C39: a blocked waiter leaves the wait queue exactly once.  The wait queue
\* holds exactly the tasks that are suspended in a wait, down or lock call: a
\* task that timed out, was explicitly unblocked or was flushed is off the
\* queue from then on, and so when its call returns.  A signal, up or unlock
\* therefore wakes queued sleepers only: it leaves every task that is not
\* suspended as it is, a unit or the ownership goes to a task that was on
\* the queue and leaves it by that step, and the owner of the mutex never
\* becomes a task whose call has returned.
LeavesQueueOnce ==
    /\ [](\A t \in Tasks : (t \in pendq) = (pc[t] = "pend"))
    /\ [][/\ (last'.op \in {"up", "unlock"} /\ last'.res = "woke") =>
                 /\ last'.t \in pendq
                 /\ last'.t \notin pendq'
                 /\ pc'[last'.t] = "ready"
                 /\ info'[last'.t] \cap WakeBits = {}
          /\ last'.op \in ServingOps =>
                 /\ \A t \in Tasks \ pendq : pc'[t] = pc[t] /\ info'[t] = info[t]
                 /\ (kind = "mutex" /\ owner' # owner) => owner' \in pendq \cup {NoTask}
          /\ \A t \in Tasks :
                 (/\ last'.t = t
                  /\ last'.op \in {"wait_wake", "down_wake", "lock_wake"}
                  /\ last'.res # "restart") =>
                     (t \notin pendq /\ t \notin pendq' /\ pc'[t] = "run")
         ]_vars

\* a waiter has timed out and has not run yet; the up that came next found
\* the wait queue empty and raised the count instead of waking it
LeavesQueueOnceWitness ==
    /\ kind = "sem"
    /\ last.op = "up"
    /\ last.res = "incr"
    /\ pendq = {}
    /\ \E t \in Tasks : pc[t] = "ready" /\ info[t] \cap WakeBits = {XNTIMEO}

====
